---- MODULE Spec2Model ----
(***************************************************************************)
(* Model of the persona orchestration engine of discord_entities:          *)
(* per-channel cooldown / chat-participant state (Channel),                *)
(* mention resolution in EntityBot.on_message, and the turn scheduler of   *)
(* EntityBot.cmd_entity_chat.  Asynchronous handlers are cut at their      *)
(* await points: one action per synchronous segment.                       *)
(***************************************************************************)
EXTENDS Integers, Sequences, FiniteSets, TLC

\* ------------------------------------------------------------------ bounds
\* time.time() is a Unix timestamp: the process starts at some clock value
\* far above the cooldown length.
Epoch == 1700000000
\* number of clock advances in one behaviour
MaxTicks == 2
\* largest turn count given to !chat
MaxTurns == 2
\* number of messages delivered in one behaviour (ids 1..MaxMsgId)
MaxMsgId == 2
\* turn count of the long sessions that exercise the scheduler alone
SchedTurns == 7
\* largest length of the message texts that are enumerated in full
MaxTextLen == 4
\* largest length of the display names given to _normalize_name
MaxNameLen == 3
\* number of deliveries that on_message does not skip, when messages are
\* delivered again
MaxDeliveries == 3
\* calls of get_or_create_webhook
MaxHookCalls == 4

\* ------------------------------------------------------- program constants
\* length of the cooldown window in Channel.is_stopped
StopWindow == 30
\* default number of turns of !chat
DefaultTurns == 10

None == "none"

ChannelIds == {1, 2}
Sessions == {1, 2}

\* --------------------------------------------------------------- characters
LowerLetters == {"a", "b"}
UpperLetters == {"A", "B"}
WordChars == LowerLetters \cup UpperLetters \cup {"7", "_"}
SpaceChars == {" "}
SymbolChars == {"@", "!"}
Char == WordChars \cup SpaceChars \cup SymbolChars

\* str.lower() on one character
LowerChar(c) == CASE c = "A" -> "a" [] c = "B" -> "b" [] OTHER -> c

\* str.lower()
Lower(s) == [i \in 1..Len(s) |-> LowerChar(s[i])]

\* x in s, for strings
Contains(s, x) ==
    \E i \in 0..(Len(s) - Len(x)) : \A j \in 1..Len(x) : s[i + j] = x[j]

\* s.startswith(p)
StartsWith(s, p) == Len(s) >= Len(p) /\ \A j \in 1..Len(p) : s[j] = p[j]

\* l without its element at position i (list.pop(i))
RemoveAt(l, i) == [j \in 1..(Len(l) - 1) |-> IF j < i THEN l[j] ELSE l[j + 1]]

\* x in l, for lists
InList(x, l) == \E i \in 1..Len(l) : l[i] = x

\* the elements of a list
Range(l) == {l[i] : i \in 1..Len(l)}

\* ---------------------------------------------------------------- registry
\* the characters of a handle
HandleChars(h) ==
    CASE h = "a" -> <<"a">>
      [] h = "ab" -> <<"a", "b">>
      [] h = "b" -> <<"b">>
      [] OTHER -> <<"7">>

\* the entities of the loaded registry, in dict (insertion) order
DefaultEntities ==
    << [handle |-> "ab", name |-> <<"A", "!">>],
       [handle |-> "a", name |-> <<"A">>],
       [handle |-> "b", name |-> <<"b", " ", "7">>] >>

VARIABLES
    now,             \* time.time()
    ticks,           \* number of clock advances so far
    channels,        \* EntityBot.channels: channel id -> Channel
    entity_group,    \* EntityBot.entity_group, as the list of its items
    last_processed,  \* EntityBot._last_processed_message
    ev,              \* the on_message handler in flight
    chat,            \* the cmd_entity_chat invocations, by session
    stop_log,        \* history: channel id -> time of its latest !stop
    stop_mark,       \* history: session -> its activation count when !stop
                     \* was issued during one of its activations or delays
    loaded_from,     \* history: the latest call of load_from_directory,
                     \* its arguments and its outcome
    speak,           \* the cmd_speak handler: its position, its locals and
                     \* the history of its activations
    normalized,      \* history: the latest call of _normalize_name, its
                     \* argument and its result
    processed,       \* history: message id -> the number of deliveries of it
                     \* that on_message did not skip as duplicates
    ghost_chat,      \* the cmd_ghost_chat handler of GhostBot: its position
                     \* and its locals
    channel_webhooks, \* EntityBot.channel_webhooks: channel id -> webhook
    hook             \* the calls of get_or_create_webhook in flight and the
                     \* history of the webhooks created per channel

vars ==
    <<now, ticks, channels, entity_group, last_processed, ev, chat, stop_log,
      stop_mark, loaded_from, speak, normalized,
      processed, ghost_chat, channel_webhooks, hook>>

\* ------------------------------------------------------------ Channel class
\* a channel that is stamped with the clock reading of its creation
NewChannelStamped == [last_stop_time |-> now, chat_participants |-> <<>>]

\* Channel.__init__
NewChannel == [last_stop_time |-> 0, chat_participants |-> <<>>]

\* Channel.is_stopped, at clock value t
is_stopped(ch, t) == t - ch.last_stop_time < StopWindow

\* a stop that keeps the participants
stopKeepsParticipants(ch, t) == [ch EXCEPT !.last_stop_time = t]

\* a stop that does not restart a running cooldown
stopNoRestart(ch, t) ==
    [last_stop_time |-> IF t - ch.last_stop_time < StopWindow
                        THEN ch.last_stop_time ELSE t,
     chat_participants |-> <<>>]

\* Channel.stop, at clock value t
stop(ch, t) == [last_stop_time |-> t, chat_participants |-> <<>>]

\* Channel.add_chat_participant
add_chat_participant(ch, h) ==
    IF ~InList(h, ch.chat_participants)
    THEN [ch EXCEPT !.chat_participants = Append(@, h)]
    ELSE ch

\* Channel.clear_chat_participants
clear_chat_participants(ch) == [ch EXCEPT !.chat_participants = <<>>]

\* Channel.is_in_chat
is_in_chat(ch, h) == InList(h, ch.chat_participants)

\* a lookup that starts a new map when it has to create the channel
get_channel_state_new_map(chs, c) ==
    IF c \notin DOMAIN chs
    THEN [d \in (DOMAIN chs) \cup {c} |-> NewChannel]
    ELSE chs

\* EntityBot.get_channel_state: the channel map after the lookup of c
get_channel_state(chs, c) ==
    IF c \notin DOMAIN chs
    THEN [d \in (DOMAIN chs) \cup {c} |-> IF d = c THEN NewChannel ELSE chs[d]]
    ELSE chs

\* adds every handle of the list hs, in order (the loop of cmd_entity_chat)
RECURSIVE AddAll(_, _)
AddAll(ch, hs) ==
    IF hs = <<>> THEN ch
    ELSE AddAll(add_chat_participant(ch, Head(hs)), Tail(hs))

\* ------------------------------------------------------------- EntityGroup
\* h in EntityGroup.keys()
Has(eg, h) == \E i \in 1..Len(eg) : eg[i].handle = h

\* EntityGroup.get: the entity of handle h, when there is one
Get(eg, h) == eg[CHOOSE i \in 1..Len(eg) : eg[i].handle = h]

\* the handles of a list of entities (EntityGroup.keys for the registry)
Handles(es) == [i \in 1..Len(es) |-> es[i].handle]

\* the maximal run of \w characters of s that starts at position i
RECURSIVE WordAt(_, _)
WordAt(s, i) ==
    IF i > Len(s) \/ s[i] \notin WordChars THEN <<>>
    ELSE <<s[i]>> \o WordAt(s, i + 1)

\* re.findall(r"@(\w+)", s), scanning from position i
RECURSIVE FindAllMentions(_, _)
FindAllMentions(s, i) ==
    IF i > Len(s) THEN <<>>
    ELSE IF s[i] = "@" /\ WordAt(s, i + 1) # <<>>
         THEN <<WordAt(s, i + 1)>> \o FindAllMentions(s, i + 1 + Len(WordAt(s, i + 1)))
         ELSE FindAllMentions(s, i + 1)

\* the loop of find_entity_by_mention over the first n registry items:
\* `A or (B and C)`, as Python parses the condition
RECURSIVE MentionLoop(_, _, _)
MentionLoop(eg, content, n) ==
    IF n = 0 THEN <<>>
    ELSE LET before == MentionLoop(eg, content, n - 1)
             message_lower == Lower(content)
             pseudo_mentions == FindAllMentions(message_lower, 1)
             handle == Lower(HandleChars(eg[n].handle))
         IN IF Contains(message_lower, <<"@">> \o handle)
               \/ (InList(handle, pseudo_mentions) /\ ~InList(eg[n], before))
            THEN Append(before, eg[n])
            ELSE before

\* EntityGroup.find_entity_by_mention
find_entity_by_mention(eg, content) == MentionLoop(eg, content, Len(eg))

\* re.sub(r'[^\w\s]', '', name)
RECURSIVE StripSymbols(_)
StripSymbols(s) ==
    IF s = <<>> THEN <<>>
    ELSE IF Head(s) \in WordChars \cup SpaceChars
         THEN <<Head(s)>> \o StripSymbols(Tail(s))
         ELSE StripSymbols(Tail(s))

\* ' '.join(s.split()): s without leading whitespace, whitespace runs
\* collapsed; `pending` says a separator is due before the next word
RECURSIVE JoinSplit(_, _)
JoinSplit(s, pending) ==
    IF s = <<>> THEN <<>>
    ELSE IF Head(s) \in SpaceChars
         THEN JoinSplit(Tail(s), TRUE)
         ELSE (IF pending THEN <<" ">> ELSE <<>>) \o <<Head(s)>> \o JoinSplit(Tail(s), FALSE)

\* leading whitespace does not produce a separator
RECURSIVE DropLeadingSpace(_)
DropLeadingSpace(s) ==
    IF s # <<>> /\ Head(s) \in SpaceChars THEN DropLeadingSpace(Tail(s)) ELSE s

\* EntityBot._normalize_name
normalize_name(name) == JoinSplit(DropLeadingSpace(StripSymbols(name)), FALSE)

\* a call of _normalize_name (or of its twin _normalize_entity_name) on name
NormalizeCall(name) ==
    /\ normalized' = [called |-> TRUE, name |-> name,
                      result |-> normalize_name(name)]
    /\ UNCHANGED <<now, ticks, channels, entity_group, last_processed, ev,
                   chat, stop_log, stop_mark, loaded_from, speak,
                   processed, ghost_chat, channel_webhooks, hook>>

\* the scan of identify_entity_from_message over registry items n..Len(eg)
RECURSIVE IdentifyLoop(_, _, _)
IdentifyLoop(eg, author_name_normalized, n) ==
    IF n > Len(eg) THEN None
    ELSE IF normalize_name(eg[n].name) = author_name_normalized
         THEN eg[n].handle
         ELSE IdentifyLoop(eg, author_name_normalized, n + 1)

\* EntityBot.identify_entity_from_message
identify_entity_from_message(eg, message) ==
    IF message.webhook_id /\ message.discriminator = "0000"
    THEN IdentifyLoop(eg, normalize_name(message.author_name), 1)
    ELSE None

\* ---------------------------------------------------------------- messages
\* the three kinds of author the platform distinguishes: a human, a persona
\* proxy (webhook) and a regular automated account
Authors ==
    { [author_bot |-> FALSE, webhook_id |-> FALSE, discriminator |-> "0",
       name |-> <<"B">>],
      [author_bot |-> TRUE, webhook_id |-> TRUE, discriminator |-> "0000",
       name |-> <<"A">>],
      [author_bot |-> TRUE, webhook_id |-> FALSE, discriminator |-> "1234",
       name |-> <<"B">>] }

\* message texts without the command prefix: "", "@B", "@b @a"
MentionTexts == { <<>>, <<"@", "B">>, <<"@", "b", " ", "@", "a">> }

\* the messages delivered to on_message that do not start with the prefix
MentionMessages ==
    [ id : 1..MaxMsgId, channel : ChannelIds, author : Authors,
      mentions_bot : BOOLEAN, content : MentionTexts, reference : BOOLEAN ]

\* the messages delivered to on_message that start with the prefix: "!"
CommandMessages ==
    [ id : 1..MaxMsgId, channel : ChannelIds, author : Authors,
      mentions_bot : {FALSE}, content : {<<"!">>}, reference : {FALSE} ]

\* the messages for which on_message returns at once, whatever the text
SkipMessages ==
    CommandMessages
        \cup [ id : 1..MaxMsgId, channel : ChannelIds, author : Authors,
               mentions_bot : {FALSE},
               content : {<<"@", "B">>, <<"!", "@", "b">>},
               reference : {FALSE} ]

\* every text of at most MaxTextLen characters over "@", "a", "b", "B", " "
Texts ==
    UNION {[1..k -> {"@", "a", "b", "B", " "}] : k \in 0..MaxTextLen}

\* the reply of a human on channel 1 that does not mention the bot, of text t
TextMessage(id, t) ==
    [ id |-> id, channel |-> 1,
      author |-> [author_bot |-> FALSE, webhook_id |-> FALSE, discriminator |-> "0",
                  name |-> <<"B">>],
      mentions_bot |-> FALSE, content |-> t, reference |-> TRUE ]

\* the messages a reply can refer to, as fetch_message returns them
RefMessages ==
    [ fetched : {TRUE}, webhook_id : {TRUE}, discriminator : {"0000"},
      author_name : {<<"A">>, <<"A", "_">>, <<"b", "_", "7">>,
                     <<" ", "b", " ", " ", "7", "!">>} ]
    \cup [ fetched : BOOLEAN, webhook_id : {FALSE}, discriminator : {"1234"},
           author_name : {<<"A">>} ]
    \cup { [ fetched |-> TRUE, webhook_id |-> TRUE, discriminator |-> "1234",
             author_name |-> <<"A">> ],
           [ fetched |-> TRUE, webhook_id |-> FALSE, discriminator |-> "0000",
             author_name |-> <<"A">> ] }

\* EntityBot.command_prefix
command_prefix == <<"!">>

\* EntityBot.is_direct_user_mention
is_direct_user_mention(m) ==
    m.mentions_bot /\ ~m.author.author_bot /\ ~m.author.webhook_id

\* a head of on_message that dispatches the commands of every author that
\* is not a regular bot
RouteProxyCommands(m) ==
    IF last_processed = m.id THEN "duplicate"
    ELSE IF m.author.author_bot /\ ~m.author.webhook_id THEN "bot"
    ELSE IF StartsWith(m.content, command_prefix) THEN "command"
    ELSE "mention"

\* the head of on_message: what becomes of message m
Route(m) ==
    IF last_processed = m.id THEN "duplicate"
    ELSE IF m.author.author_bot /\ ~m.author.webhook_id THEN "bot"
    ELSE IF StartsWith(m.content, command_prefix)
         THEN (IF ~m.author.webhook_id THEN "command" ELSE "ignored")
    ELSE "mention"

\* the on_message handler at rest; the fields from pseudo on are history:
\* the result of the pseudo-mention scan, the handle identified for the
\* referenced message, whether its fetch raised, the participants of the
\* channel and the filtered list at the time of the filter, and whether
\* the random fallback chose the entity
IdleEv ==
    [ pc |-> "idle", channel |-> 0, proxy |-> FALSE, direct_user |-> FALSE,
      is_direct_mention |-> FALSE, content |-> <<>>,
      mentioned_entities |-> <<>>, gate |-> "none", blocked |-> FALSE,
      unique_entitys |-> <<>>, begun |-> 0,
      pseudo |-> <<>>, reply_to |-> None, fetch_failed |-> FALSE,
      in_chat |-> <<>>, filtered_entitys |-> <<>>, fallback |-> FALSE,
      author_name |-> <<>> ]

\* a deduplication that loses the order: the first occurrences, reversed
RECURSIVE UniqueReversed(_)
UniqueReversed(es) ==
    IF es = <<>> THEN <<>>
    ELSE LET rest == UniqueReversed(Tail(es))
         IN IF Head(es).handle \in {rest[i].handle : i \in 1..Len(rest)}
            THEN rest ELSE Append(rest, Head(es))

\* "remove duplicates while preserving order" of on_message
RECURSIVE Unique(_)
Unique(es) ==
    IF es = <<>> THEN <<>>
    ELSE LET init == Unique(SubSeq(es, 1, Len(es) - 1))
             last == es[Len(es)]
         IN IF last.handle \in {init[i].handle : i \in 1..Len(init)}
            THEN init ELSE Append(init, last)

\* appends the entities of more that are not in es (the proxy-author loop)
RECURSIVE AppendNew(_, _)
AppendNew(es, more) ==
    IF more = <<>> THEN es
    ELSE AppendNew(IF InList(Head(more), es) THEN es ELSE Append(es, Head(more)),
                   Tail(more))

\* the participant filter of on_message
RECURSIVE FilterInChat(_, _)
FilterInChat(ch, es) ==
    IF es = <<>> THEN <<>>
    ELSE IF is_in_chat(ch, Head(es).handle)
         THEN FilterInChat(ch, Tail(es))
         ELSE <<Head(es)>> \o FilterInChat(ch, Tail(es))

\* ------------------------------------------------------------------- clock
\* the clock advances by d while every handler is suspended or idle
Tick(d) ==
    /\ ticks < MaxTicks
    /\ now' = now + d
    /\ ticks' = ticks + 1
    /\ UNCHANGED <<channels, entity_group, last_processed, ev, chat, stop_log, stop_mark,
                   loaded_from, speak, normalized,
                   processed, ghost_chat, channel_webhooks, hook>>

\* -------------------------------------------------------------- on_message
\* a gate that drops the direct human mentions instead of the others
GateBlocksOnlyDirect(ch, direct_user, t) == is_stopped(ch, t) /\ direct_user

\* the cooldown gate of on_message: TRUE when the event is dropped
GateBlocks(ch, direct_user, t) == is_stopped(ch, t)

\* on_message from the proxy-author check to the first activation:
\* e is the handler state with the candidates found so far; gate records
\* what is_stopped returned when the handler reached the cooldown check
ResolveStep(e) ==
    LET with_proxy ==
            IF e.proxy
            THEN AppendNew(e.mentioned_entities,
                           find_entity_by_mention(entity_group, e.content))
            ELSE e.mentioned_entities
        chs == get_channel_state(channels, e.channel)
        channel_state == chs[e.channel]
        checked == with_proxy # <<>> \/ e.is_direct_mention
        filtered ==
            IF ~e.direct_user THEN FilterInChat(channel_state, with_proxy)
            ELSE with_proxy
        e1 == [e EXCEPT !.mentioned_entities = with_proxy, !.content = <<>>,
                        !.gate = IF ~checked THEN "none"
                                 ELSE IF is_stopped(channel_state, now)
                                      THEN "stopped" ELSE "open"]
        e2 == [e1 EXCEPT !.in_chat = channel_state.chat_participants,
                         !.filtered_entitys = filtered]
    IN /\ channels' = chs
       /\ IF checked
          THEN IF GateBlocks(channel_state, e.direct_user, now)
               THEN ev' = [e1 EXCEPT !.pc = "blocksend", !.blocked = TRUE]
               ELSE IF filtered = <<>> /\ e.is_direct_mention /\ Len(entity_group) > 0
                    THEN \E i \in 1..Len(entity_group) :
                            ev' = [e2 EXCEPT !.pc = "activating",
                                             !.unique_entitys = <<entity_group[i]>>,
                                             !.begun = 1,
                                             !.fallback = TRUE]
                    ELSE IF filtered # <<>>
                         THEN ev' = [e2 EXCEPT !.pc = "activating",
                                               !.unique_entitys = Unique(filtered),
                                               !.begun = 1]
                         ELSE ev' = [e2 EXCEPT !.pc = "done"]
          ELSE ev' = [e1 EXCEPT !.pc = "done"]

\* on_message returns at once: duplicate id, regular bot, command of a proxy
OnMessageSkip(m) ==
    /\ Route(m) \in {"duplicate", "bot", "ignored"}
    /\ last_processed' = m.id
    /\ processed' = IF Route(m) = "duplicate" THEN processed
                    ELSE [processed EXCEPT ![m.id] = @ + 1]
    /\ UNCHANGED <<now, ticks, channels, entity_group, ev, chat, stop_log, stop_mark,
                   loaded_from, speak, normalized,
                   ghost_chat, channel_webhooks, hook>>

\* on_message of a message that goes through mention resolution
OnMessage(m) ==
    /\ ev.pc \in {"idle", "done"}
    /\ Route(m) = "mention"
    /\ last_processed' = m.id
    /\ processed' = [processed EXCEPT ![m.id] = @ + 1]
    /\ LET e == [IdleEv EXCEPT
                    !.channel = m.channel,
                    !.proxy = m.author.webhook_id /\ m.author.discriminator = "0000",
                    !.direct_user = is_direct_user_mention(m),
                    !.is_direct_mention = m.mentions_bot,
                    !.author_name = m.author.name,
                    !.content = m.content,
                    !.mentioned_entities = find_entity_by_mention(entity_group, m.content),
                    !.pseudo = find_entity_by_mention(entity_group, m.content)]
       IN IF m.reference
          THEN ev' = [e EXCEPT !.pc = "fetch"] /\ UNCHANGED channels
          ELSE ResolveStep(e)
    /\ UNCHANGED <<now, ticks, entity_group, chat, stop_log, stop_mark,
                   loaded_from, speak, normalized,
                   ghost_chat, channel_webhooks, hook>>

\* a reply target that is added after the mentions
AddReplyTargetLast(mentioned_entities, entity) ==
    Append(mentioned_entities, entity)

\* mentioned_entities.insert(0, entity)
AddReplyTarget(mentioned_entities, entity) == <<entity>> \o mentioned_entities

\* fetch_message returns the referenced message r, or raises (~r.fetched)
FetchReturn(r) ==
    /\ ev.pc = "fetch"
    /\ LET entity_handle ==
               IF ~r.fetched THEN None
               ELSE identify_entity_from_message(entity_group, r)
           e == IF /\ entity_handle # None
                   /\ Has(entity_group, entity_handle)
                   /\ ~InList(Get(entity_group, entity_handle), ev.mentioned_entities)
                THEN [ev EXCEPT !.mentioned_entities =
                         AddReplyTarget(@, Get(entity_group, entity_handle))]
                ELSE ev
       IN ResolveStep([e EXCEPT !.reply_to = entity_handle,
                                !.fetch_failed = ~r.fetched])
    /\ UNCHANGED <<now, ticks, entity_group, last_processed, chat, stop_log, stop_mark,
                   loaded_from, speak, normalized,
                   processed, ghost_chat, channel_webhooks, hook>>

\* the "Dropping entity mentions" notice was sent; on_message returns
BlockSendReturn ==
    /\ ev.pc = "blocksend"
    /\ ev' = [ev EXCEPT !.pc = "done"]
    /\ UNCHANGED <<now, ticks, channels, entity_group, last_processed, chat, stop_log, stop_mark,
                   loaded_from, speak, normalized,
                   processed, ghost_chat, channel_webhooks, hook>>

\* activate_entity returns to the loop of on_message, which activates the
\* next entity of unique_entitys, if any
EvActivateReturn ==
    /\ ev.pc = "activating"
    /\ IF ev.begun < Len(ev.unique_entitys)
       THEN ev' = [ev EXCEPT !.begun = @ + 1]
       ELSE ev' = [ev EXCEPT !.pc = "done"]
    /\ UNCHANGED <<now, ticks, channels, entity_group, last_processed, chat, stop_log, stop_mark,
                   loaded_from, speak, normalized,
                   processed, ghost_chat, channel_webhooks, hook>>

\* ------------------------------------------------------------------- !stop
\* on_message dispatches the command message m to cmd_stop
CmdStop(m) ==
    /\ Route(m) = "command"
    /\ last_processed' = m.id
    /\ processed' = [processed EXCEPT ![m.id] = @ + 1]
    /\ LET chs == get_channel_state(channels, m.channel)
       IN channels' = [chs EXCEPT ![m.channel] = stop(@, now)]
    /\ stop_log' = [stop_log EXCEPT ![m.channel] = now]
    /\ stop_mark' =
           [s \in Sessions |->
               IF /\ chat[s].channel = m.channel
                  /\ stop_mark[s] = -1
                  /\ \/ chat[s].pc = "sleeping"
                     \/ chat[s].pc = "activating" /\ chat[s].turn < chat[s].num_turns - 1
               THEN chat[s].activations
               ELSE stop_mark[s]]
    /\ UNCHANGED <<now, ticks, entity_group, ev, chat, loaded_from, speak, normalized,
                   ghost_chat, channel_webhooks, hook>>

\* ----------------------------------------------------------------- !reload
\* the base names (Path.stem) of the config files of the entity directory
Stems == {"A", "B", "a", "b"}

\* the handles the config files declare
FileHandles == {"a", "b"}

\* the place of a path in the order of list.sort(): the code point of its
\* stem, since all the files have the same directory and extension
StemRank(stem) ==
    CASE stem = "A" -> 65 [] stem = "B" -> 66 [] stem = "a" -> 97 [] OTHER -> 98

\* a config file: its stem, whether Entity.load_from_file returns an
\* entity (ok) or raises ValueError, and the handle of that entity
ConfigFiles == [stem : Stems, handle : FileHandles, ok : BOOLEAN]

\* the results of the globs: the files of a directory, in any order, no two
\* with the same path
GlobResults ==
    { g \in UNION {[1..k -> ConfigFiles] : k \in 0..Cardinality(Stems)} :
        \A i, j \in 1..Len(g) : g[i].stem = g[j].stem => i = j }

\* the list l, sorted, with file f inserted at its place
RECURSIVE InsertSorted(_, _)
InsertSorted(l, f) ==
    IF l = <<>> THEN <<f>>
    ELSE IF StemRank(f.stem) < StemRank(Head(l).stem) THEN <<f>> \o l
    ELSE <<Head(l)>> \o InsertSorted(Tail(l), f)

\* config_files.sort()
RECURSIVE SortFiles(_)
SortFiles(config_files) ==
    IF config_files = <<>> THEN <<>>
    ELSE InsertSorted(SortFiles(Tail(config_files)), Head(config_files))

\* the entity that Entity.load_from_file returns for file f; its name
\* stands for the content of the file
EntityOf(f) == [handle |-> f.handle, name |-> <<f.stem>>]

\* is_generated_file: the stem, in lower case, is the handle in lower case
is_generated_file(f) == <<LowerChar(f.stem)>> = Lower(HandleChars(f.handle))

\* a conflict rule by which, within one category, the earlier file stays
should_replace_earlier(is_generated, existing_is_generated) ==
    is_generated /\ ~existing_is_generated

\* should_replace of load_from_directory, for a handle already loaded
should_replace(is_generated, existing_is_generated) ==
    IF is_generated /\ ~existing_is_generated THEN TRUE
    ELSE IF ~is_generated /\ existing_is_generated THEN FALSE
    ELSE TRUE

\* the first pass of load_from_directory over the first n sorted files:
\* entities_by_handle and file_priority, as one list in dict order
RECURSIVE LoadLoop(_, _)
LoadLoop(config_files, n) ==
    IF n = 0 THEN <<>>
    ELSE LET before == LoadLoop(config_files, n - 1)
             f == config_files[n]
             at == {i \in 1..Len(before) : before[i].entity.handle = f.handle}
             new == [entity |-> EntityOf(f), generated |-> is_generated_file(f)]
         IN IF ~f.ok THEN before
            ELSE IF at = {} THEN Append(before, new)
            ELSE LET i == CHOOSE i \in at : TRUE
                 IN IF should_replace(new.generated, before[i].generated)
                    THEN [before EXCEPT ![i] = new]
                    ELSE before

\* a loader that skips a failing file whatever ignore_errors is
file_error_raises_never(ignore_errors) == FALSE

\* `if not ignore_errors: raise ValueError` in the except clause of the
\* file loop
file_error_raises(ignore_errors) == ~ignore_errors

\* a loader that returns an empty group whatever ignore_errors is
empty_raises_never(ignore_errors) == FALSE

\* `if not ignore_errors: raise ValueError` for a missing directory, for a
\* directory without config files and for a group left empty
empty_raises(ignore_errors) == ~ignore_errors

\* EntityGroup.load_from_directory for a directory that exists or not and
\* the glob result g: whether it raises ValueError, and otherwise the
\* entities of the group it returns, in dict order
load_from_directory(exists, g, ignore_errors) ==
    LET config_files == SortFiles(g)
        loaded == LoadLoop(config_files, Len(config_files))
        Raise == [raised |-> TRUE, group |-> <<>>]
        Return(group) == [raised |-> FALSE, group |-> group]
    IN IF ~exists \/ g = <<>>
       THEN (IF empty_raises(ignore_errors) THEN Raise ELSE Return(<<>>))
       ELSE IF (\E i \in 1..Len(config_files) : ~config_files[i].ok)
                /\ file_error_raises(ignore_errors)
            THEN Raise
            ELSE IF Len(loaded) = 0 /\ empty_raises(ignore_errors)
                 THEN Raise
                 ELSE Return([i \in 1..Len(loaded) |-> loaded[i].entity])

\* a call of EntityGroup.load_from_directory by a user of the class
LoadCall(exists, g, ignore_errors) ==
    /\ exists \/ g = <<>>
    /\ loaded_from' =
           [loaded |-> TRUE, exists |-> exists, files |-> g,
            ignore_errors |-> ignore_errors,
            result |-> load_from_directory(exists, g, ignore_errors)]
    /\ UNCHANGED <<now, ticks, channels, entity_group, last_processed, ev,
                   chat, stop_log, stop_mark, speak, normalized,
                   processed, ghost_chat, channel_webhooks, hook>>

\* a reload that updates the registry in place, entry by entry: the
\* handles that the new files do not declare keep their old entity
ReloadInPlace(old_group, new_group) ==
    LET kept == SelectSeq(old_group,
                    LAMBDA e : \A i \in 1..Len(new_group) :
                                   new_group[i].handle # e.handle)
    IN kept \o new_group

\* `self.entity_group = EntityGroup.load_from_directory(...)`: the registry
\* after the assignment of the group that the load built
ReloadAssign(old_group, new_group) == new_group

\* on_message dispatches the command message m to cmd_reload, which
\* replaces the registry by the one loaded from the files g
CmdReload(m, g) ==
    /\ Route(m) = "command"
    /\ last_processed' = m.id
    /\ processed' = [processed EXCEPT ![m.id] = @ + 1]
    /\ entity_group' =
           ReloadAssign(entity_group, load_from_directory(TRUE, g, TRUE).group)
    /\ loaded_from' =
           [loaded |-> TRUE, exists |-> TRUE, files |-> g,
            ignore_errors |-> TRUE,
            result |-> load_from_directory(TRUE, g, TRUE)]
    /\ UNCHANGED <<now, ticks, channels, ev, chat, stop_log, stop_mark,
                   speak, normalized,
                   ghost_chat, channel_webhooks, hook>>

\* ------------------------------------------------------------------- !chat
\* the words after !chat: integers and names
IntArg(n) == [kind |-> "int", val |-> n]
NameArg(h) == [kind |-> "name", val |-> h]

\* the argument lists of !chat: none, a turn count alone, two handles,
\* the same handle twice, an unknown handle, a non-positive and a second
\* integer
ChatArgs ==
    { <<>>, <<IntArg(MaxTurns)>>, <<NameArg("a"), NameArg("b")>>,
      <<NameArg("a"), IntArg(MaxTurns), NameArg("b")>>,
      <<IntArg(1), NameArg("b"), NameArg("ab")>>,
      <<NameArg("a"), NameArg("a"), IntArg(MaxTurns)>>,
      <<NameArg("zz"), NameArg("a"), IntArg(MaxTurns)>>,
      <<NameArg("zz"), NameArg("b"), NameArg("a"), IntArg(MaxTurns)>>,
      <<IntArg(0), NameArg("a"), NameArg("b"), IntArg(MaxTurns)>>,
      <<IntArg(MaxTurns), IntArg(1), NameArg("a"), NameArg("b")>> }

\* the argument loop of cmd_entity_chat: the first positive integer is the
\* turn count, every other word is taken as a handle
RECURSIVE ParseArgs(_, _)
ParseArgs(args, acc) ==
    IF args = <<>> THEN acc
    ELSE LET arg == Head(args)
         IN IF ~acc.found_number /\ arg.kind = "int" /\ arg.val > 0
            THEN ParseArgs(Tail(args),
                           [acc EXCEPT !.num_turns = arg.val, !.found_number = TRUE])
            ELSE ParseArgs(Tail(args),
                           [acc EXCEPT !.entity_handles =
                               Append(@, IF arg.kind = "int" THEN "0" ELSE arg.val)])

\* the validation loop of cmd_entity_chat
RECURSIVE ValidEntitys(_, _)
ValidEntitys(eg, handles) ==
    IF handles = <<>> THEN <<>>
    ELSE IF Has(eg, Head(handles))
         THEN <<Get(eg, Head(handles))>> \o ValidEntitys(eg, Tail(handles))
         ELSE ValidEntitys(eg, Tail(handles))

\* a cmd_entity_chat invocation that has not begun; waited is history: for
\* each participant, the number of turns since it was last the speaker
IdleChat ==
    [ pc |-> "idle", channel |-> 0, valid_entitys |-> <<>>, num_turns |-> 0,
      speaker_queue |-> <<>>, turn |-> 0, selected_index |-> 0,
      current_entity |-> None, prev_entity |-> None, prev_queue |-> <<>>,
      activations |-> 0, failures |-> 0, abort_turn |-> -1,
      start_stopped |-> FALSE, exit |-> "none",
      waited |-> [h \in {} |-> 0] ]

\* max(a, b)
Max(a, b) == IF a >= b THEN a ELSE b

\* a half that is rounded up: ceil((queue_size + 1) / 2)
half_size_ceil(queue_size) == Max(1, (queue_size + 2) \div 2)

\* half_size of cmd_entity_chat
half_size(queue_size) == Max(1, (queue_size + 1) \div 2)

\* a selection among all the positions of the queue
SelectableAll(queue_size) == 0..(queue_size - 1)

\* the indices random.randint can return for a queue of queue_size speakers
SelectableIndices(queue_size) ==
    IF queue_size > 1 THEN 0..(half_size(queue_size) - 1) ELSE {0}

\* a requeue that appends the selected speaker without the pop
RequeueNoPop(speaker_queue, selected_index) ==
    Append(speaker_queue, speaker_queue[selected_index + 1])

\* a requeue that swaps the selected speaker with the last one
RequeueSwap(speaker_queue, selected_index) ==
    [i \in 1..Len(speaker_queue) |->
        IF i = selected_index + 1 THEN speaker_queue[Len(speaker_queue)]
        ELSE IF i = Len(speaker_queue) THEN speaker_queue[selected_index + 1]
        ELSE speaker_queue[i]]

\* "move the selected speaker to the back of the queue" (0-based index)
Requeue(speaker_queue, selected_index) ==
    Append(RemoveAt(speaker_queue, selected_index + 1),
           speaker_queue[selected_index + 1])

\* a turn loop that makes the cooldown check from the second turn on
TurnBeginLateCheck(s, c, chs) ==
    IF c.turn > 0 /\ is_stopped(chs[c.channel], now)
    THEN chat' = [chat EXCEPT ![s] = [c EXCEPT !.pc = "stopsend",
                                               !.abort_turn = c.turn]]
    ELSE \E selected_index \in SelectableIndices(Len(c.speaker_queue)) :
            chat' = [chat EXCEPT ![s] =
                [c EXCEPT !.pc = "activating",
                          !.selected_index = selected_index,
                          !.prev_entity = c.current_entity,
                          !.current_entity = c.speaker_queue[selected_index + 1].handle,
                          !.prev_queue = c.speaker_queue,
                          !.speaker_queue = Requeue(c.speaker_queue, selected_index),
                          !.activations = c.activations + 1,
                          !.waited = [h \in DOMAIN c.waited |->
                              IF h = c.speaker_queue[selected_index + 1].handle
                              THEN 0 ELSE c.waited[h] + 1]]]

\* the head of one loop iteration of cmd_entity_chat, for the session state
\* c whose turn number is already set: the cooldown check, then the choice
\* of the speaker, up to the call of activate_entity
TurnBegin(s, c, chs) ==
    IF is_stopped(chs[c.channel], now)
    THEN chat' = [chat EXCEPT ![s] = [c EXCEPT !.pc = "stopsend",
                                               !.abort_turn = c.turn]]
    ELSE \E selected_index \in SelectableIndices(Len(c.speaker_queue)) :
            chat' = [chat EXCEPT ![s] =
                [c EXCEPT !.pc = "activating",
                          !.selected_index = selected_index,
                          !.prev_entity = c.current_entity,
                          !.current_entity = c.speaker_queue[selected_index + 1].handle,
                          !.prev_queue = c.speaker_queue,
                          !.speaker_queue = Requeue(c.speaker_queue, selected_index),
                          !.activations = c.activations + 1,
                          !.waited = [h \in DOMAIN c.waited |->
                              IF h = c.speaker_queue[selected_index + 1].handle
                              THEN 0 ELSE c.waited[h] + 1]]]

\* a cleanup that runs on the two regular exits only
FinallyOnReturn(chs, channel, how) ==
    IF how = "exception" THEN chs
    ELSE [chs EXCEPT ![channel] = clear_chat_participants(@)]

\* the finally clause of cmd_entity_chat
Finally(chs, channel, how) ==
    [chs EXCEPT ![channel] = clear_chat_participants(@)]

\* on_message dispatches the command message m to cmd_entity_chat, which
\* parses and validates its arguments and announces the chat
CmdChat(s, m, args) ==
    /\ Route(m) = "command"
    /\ chat[s].pc \in {"idle", "exited"}
    /\ last_processed' = m.id
    /\ processed' = [processed EXCEPT ![m.id] = @ + 1]
    /\ LET parsed == ParseArgs(args, [num_turns |-> DefaultTurns,
                                      found_number |-> FALSE,
                                      entity_handles |-> <<>>])
           entity_handles == IF parsed.entity_handles = <<>>
                             THEN Handles(entity_group)
                             ELSE parsed.entity_handles
           valid_entitys == ValidEntitys(entity_group, entity_handles)
       IN IF Len(entity_group) < 2 \/ Len(valid_entitys) < 2
          THEN chat' = [chat EXCEPT ![s] =
                   [IdleChat EXCEPT !.pc = "exited", !.channel = m.channel,
                                    !.exit = "rejected"]]
          ELSE chat' = [chat EXCEPT ![s] =
                   [IdleChat EXCEPT !.pc = "announce", !.channel = m.channel,
                                    !.valid_entitys = valid_entitys,
                                    !.num_turns = parsed.num_turns]]
    /\ stop_mark' = [stop_mark EXCEPT ![s] = -1]
    /\ UNCHANGED <<now, ticks, channels, entity_group, ev, stop_log,
                   loaded_from, speak, normalized,
                   ghost_chat, channel_webhooks, hook>>

\* the announcement was sent: the participants are added, the queue is
\* shuffled by the permutation p and the first turn begins
ChatStart(s, p) ==
    /\ chat[s].pc = "announce"
    /\ DOMAIN p = 1..Len(chat[s].valid_entitys)
    /\ LET c == chat[s]
           chs0 == get_channel_state(channels, c.channel)
           chs == [chs0 EXCEPT ![c.channel] =
                      AddAll(@, Handles(c.valid_entitys))]
           c1 == [c EXCEPT !.speaker_queue =
                               [i \in 1..Len(c.valid_entitys) |-> c.valid_entitys[p[i]]],
                           !.valid_entitys = <<>>,
                           !.turn = 0,
                           !.start_stopped = is_stopped(chs[c.channel], now),
                           !.waited = [h \in Range(Handles(c.valid_entitys)) |-> 0]]
       IN /\ channels' = chs
          /\ TurnBegin(s, c1, chs)
    /\ UNCHANGED <<now, ticks, entity_group, last_processed, ev, stop_log, stop_mark,
                   loaded_from, speak, normalized,
                   processed, ghost_chat, channel_webhooks, hook>>

\* a turn loop that an unsuccessful activation ends
AfterActivationBreak(c, failed) ==
    IF ~failed /\ c.turn < c.num_turns - 1 THEN "sleeping" ELSE "donesend"

\* where cmd_entity_chat goes when activate_entity has returned, with or
\* without a reply of the entity: a delay follows unless this was the last
\* turn, after which the completion notice is sent
AfterActivation(c, failed) ==
    IF c.turn < c.num_turns - 1 THEN "sleeping" ELSE "donesend"

\* activate_entity returns to cmd_entity_chat after the entity's reply
ChatActivateReturn(s) ==
    /\ chat[s].pc = "activating"
    /\ chat' = [chat EXCEPT ![s].pc = AfterActivation(chat[s], FALSE)]
    /\ UNCHANGED <<now, ticks, channels, entity_group, last_processed, ev,
                   stop_log, stop_mark, loaded_from, speak, normalized,
                   processed, ghost_chat, channel_webhooks, hook>>

\* the activation fails (history, LLM call or send raises): activate_entity
\* catches the exception, tries to send its error notice and returns
ChatActivateFail(s) ==
    /\ chat[s].pc = "activating"
    /\ chat' = [chat EXCEPT ![s].pc = AfterActivation(chat[s], TRUE),
                            ![s].failures = @ + 1]
    /\ UNCHANGED <<now, ticks, channels, entity_group, last_processed, ev,
                   stop_log, stop_mark, loaded_from, speak, normalized,
                   processed, ghost_chat, channel_webhooks, hook>>

\* a loop whose turn number does not advance
next_turn_stuck(turn) == turn

\* `for turn in range(num_turns)`: the turn number of the next iteration
next_turn(turn) == turn + 1

\* the inter-turn delay is over: the next turn begins
ChatSleepReturn(s) ==
    /\ chat[s].pc = "sleeping"
    /\ TurnBegin(s, [chat[s] EXCEPT !.turn = next_turn(@)], channels)
    /\ UNCHANGED <<now, ticks, channels, entity_group, last_processed, ev,
                   stop_log, stop_mark, loaded_from, speak, normalized,
                   processed, ghost_chat, channel_webhooks, hook>>

\* the stop notice or the completion notice was sent: cmd_entity_chat
\* returns through its finally clause
ChatSendReturn(s) ==
    /\ chat[s].pc \in {"stopsend", "donesend"}
    /\ LET how == IF chat[s].pc = "stopsend" THEN "stopped" ELSE "completed"
       IN /\ chat' = [chat EXCEPT ![s].pc = "exited", ![s].exit = how]
          /\ channels' = Finally(channels, chat[s].channel, how)
    /\ UNCHANGED <<now, ticks, entity_group, last_processed, ev, stop_log, stop_mark,
                   loaded_from, speak, normalized,
                   processed, ghost_chat, channel_webhooks, hook>>

\* an exception leaves cmd_entity_chat through its finally clause: a failed
\* send of a notice, or the cancellation of the task during an activation
\* or a delay (activate_entity itself lets no Exception escape, so the
\* except clause of the turn loop handles nothing)
ChatRaise(s) ==
    /\ chat[s].pc \in {"activating", "sleeping", "stopsend", "donesend"}
    /\ chat' = [chat EXCEPT ![s].pc = "exited", ![s].exit = "exception"]
    /\ channels' = Finally(channels, chat[s].channel, "exception")
    /\ UNCHANGED <<now, ticks, entity_group, last_processed, ev, stop_log, stop_mark,
                   loaded_from, speak, normalized,
                   processed, ghost_chat, channel_webhooks, hook>>

\* --------------------------------------------------------- activate_entity
\* what the awaits of one activation can do: the history read and the
\* sends succeed or raise, the LLM call succeeds or fails, and the webhook
\* of the channel is found, is refused (None) or its lookup raises
ActivationOutcomes ==
    [ history_ok : BOOLEAN, llm_ok : BOOLEAN,
      webhook : {"found", "none", "raises"}, webhook_send_ok : BOOLEAN,
      reply_ok : BOOLEAN, error_reply_ok : BOOLEAN ]

\* call_llm: the generated text, or its fallback text when the call fails
call_llm(o) == IF o.llm_ok THEN "response" ELSE "fallback_msg"

\* the try block of activate_entity under the outcomes o: whether it
\* raises, and the messages it tries to send, in order
TryBody(o) ==
    IF ~o.history_ok \/ o.webhook = "raises"
    THEN [raised |-> TRUE, attempts |-> <<>>]
    ELSE IF o.webhook = "found" /\ o.webhook_send_ok
    THEN [raised |-> FALSE,
          attempts |-> << [via |-> "webhook", text |-> call_llm(o), ok |-> TRUE] >>]
    ELSE [raised |-> ~o.reply_ok,
          attempts |->
              (IF o.webhook = "found"
               THEN << [via |-> "webhook", text |-> call_llm(o), ok |-> FALSE] >>
               ELSE <<>>)
              \o << [via |-> "reply", text |-> call_llm(o), ok |-> o.reply_ok] >>]

\* an except clause that sends its notice outside of a try block
ExceptClauseNoGuard(body, o) ==
    [raised |-> ~o.error_reply_ok,
     attempts |-> Append(body.attempts,
                     [via |-> "reply", text |-> "error_msg", ok |-> o.error_reply_ok])]

\* the `except Exception` clause of activate_entity: the error notice is
\* sent inside a try block of its own, whose except clause only logs
ExceptClause(body, o) ==
    [raised |-> FALSE,
     attempts |-> Append(body.attempts,
                     [via |-> "reply", text |-> "error_msg", ok |-> o.error_reply_ok])]

\* EntityBot.activate_entity under the outcomes o
activate_entity(o) ==
    LET body == TryBody(o)
        res == IF body.raised THEN ExceptClause(body, o) ELSE body
    IN [called |-> TRUE, raised |-> res.raised, attempts |-> res.attempts]

\* the ways in which one call of activate_entity can end
ActivationResults == {activate_entity(o) : o \in ActivationOutcomes}

\* the activation delivered the generated text
Delivered_response(res) ==
    /\ ~res.raised
    /\ res.attempts # <<>>
    /\ res.attempts[Len(res.attempts)].ok
    /\ res.attempts[Len(res.attempts)].text = "response"

\* ------------------------------------------------------------------ !speak
\* str.lower() on a handle written by a user
LowerHandle(h) == CASE h = "A" -> "a" [] h = "B" -> "b" [] OTHER -> h

\* the words after !speak: none, one handle, two and three handles in an
\* order that is not the registry's, a handle twice, an unknown handle
\* after and before a known one, an unknown handle alone and a handle in
\* upper case
SpeakArgs ==
    { <<>>, <<"a">>, <<"b", "a">>, <<"b", "ab", "a">>, <<"a", "b", "a">>,
      <<"a", "zz">>, <<"zz", "b">>, <<"zz">>, <<"A">> }

\* the cmd_speak handler when it is not running
IdleSpeak ==
    [ pc |-> "idle", id |-> 0, channel |-> 0, entity_handles |-> <<>>,
      entitys_to_speak |-> <<>>, index |-> 0, spoken |-> <<>>,
      failures |-> 0, failed_at |-> 0, exit |-> "none",
      last |-> [called |-> FALSE, raised |-> FALSE, attempts |-> <<>>],
      propagated |-> 0 ]

\* `[handle for handle in entity_handles if handle in keys()]`
ValidHandles(eg, entity_handles) ==
    SelectSeq(entity_handles, LAMBDA h : Has(eg, h))

\* the lookup loop of cmd_speak: the entities of the handles, the handles
\* that get() does not find being reported and skipped
RECURSIVE EntitysToSpeak(_, _)
EntitysToSpeak(eg, handles) ==
    IF handles = <<>> THEN <<>>
    ELSE IF Has(eg, LowerHandle(Head(handles)))
         THEN <<Get(eg, LowerHandle(Head(handles)))>>
                  \o EntitysToSpeak(eg, Tail(handles))
         ELSE EntitysToSpeak(eg, Tail(handles))

\* a loop that checks the cooldown before its first activation only
SpeakTurnCheckFirst(sp, chs) ==
    IF sp.index = 0 /\ is_stopped(chs[sp.channel], now)
    THEN speak' = [sp EXCEPT !.pc = "stopsend"]
    ELSE speak' = [sp EXCEPT !.pc = "activating",
                             !.index = sp.index + 1,
                             !.spoken = Append(sp.spoken,
                                 sp.entitys_to_speak[sp.index + 1].handle)]

\* the head of one iteration of the loop of cmd_speak, for the handler
\* state sp that has begun sp.index iterations: the cooldown check, then the
\* call of activate_entity
SpeakTurn(sp, chs) ==
    IF is_stopped(chs[sp.channel], now)
    THEN speak' = [sp EXCEPT !.pc = "stopsend"]
    ELSE speak' = [sp EXCEPT !.pc = "activating",
                             !.index = sp.index + 1,
                             !.spoken = Append(sp.spoken,
                                 sp.entitys_to_speak[sp.index + 1].handle)]

\* `if len(handles) != len(entity_handles)`: the command is refused
RejectsInvalid(handles, entity_handles) == Len(handles) # Len(entity_handles)

\* on_message dispatches the command message m to cmd_speak with the words
\* entity_handles; p is the outcome of random.shuffle when no handle is
\* given. The handler runs without a suspension up to its first call of
\* activate_entity, or returns after the one notice it sends
CmdSpeak(m, entity_handles, p) ==
    /\ Route(m) = "command"
    /\ speak.pc \in {"idle", "exited"}
    /\ last_processed' = m.id
    /\ processed' = [processed EXCEPT ![m.id] = @ + 1]
    /\ DOMAIN p = 1..Len(entity_group)
    /\ LET sp0 == [IdleSpeak EXCEPT !.id = m.id, !.channel = m.channel,
                                    !.entity_handles = entity_handles]
           valid == ValidHandles(entity_group, entity_handles)
           handles == IF valid = <<>>
                      THEN [i \in 1..Len(entity_group) |-> entity_group[p[i]].handle]
                      ELSE valid
           entitys_to_speak == EntitysToSpeak(entity_group, handles)
       IN IF Len(entity_group) = 0
          THEN speak' = [sp0 EXCEPT !.pc = "exited", !.exit = "no_entities"]
               /\ UNCHANGED channels
          ELSE IF RejectsInvalid(valid, entity_handles)
          THEN speak' = [sp0 EXCEPT !.pc = "exited", !.exit = "invalid"]
               /\ UNCHANGED channels
          ELSE IF entitys_to_speak = <<>>
          THEN speak' = [sp0 EXCEPT !.pc = "exited", !.exit = "none_valid"]
               /\ UNCHANGED channels
          ELSE LET chs == get_channel_state(channels, m.channel)
               IN /\ channels' = chs
                  /\ SpeakTurn([sp0 EXCEPT !.entitys_to_speak = entitys_to_speak],
                               chs)
    /\ UNCHANGED <<now, ticks, entity_group, ev, chat, stop_log, stop_mark,
                   loaded_from, normalized,
                   ghost_chat, channel_webhooks, hook>>

\* cmd_speak after activate_entity has returned: the delay unless the
\* entity equals the last one of the list, else the next iteration at once,
\* else the end of the command
AfterSpeak(sp) ==
    LET entity == sp.entitys_to_speak[sp.index]
    IN IF entity # sp.entitys_to_speak[Len(sp.entitys_to_speak)]
       THEN speak' = [sp EXCEPT !.pc = "sleeping"]
       ELSE IF sp.index < Len(sp.entitys_to_speak)
       THEN SpeakTurn(sp, channels)
       ELSE speak' = [sp EXCEPT !.pc = "exited", !.exit = "completed"]

\* activate_entity returns to cmd_speak after the entity's reply
SpeakActivateReturn ==
    /\ speak.pc = "activating"
    /\ \E res \in ActivationResults :
          /\ Delivered_response(res)
          /\ AfterSpeak([speak EXCEPT !.last = res])
    /\ UNCHANGED <<now, ticks, channels, entity_group, last_processed, ev,
                   chat, stop_log, stop_mark, loaded_from, normalized,
                   processed, ghost_chat, channel_webhooks, hook>>

\* the activation fails: activate_entity returns to cmd_speak without the
\* entity's reply, or raises into the except clause of the loop
SpeakActivateFail ==
    /\ speak.pc = "activating"
    /\ \E res \in ActivationResults :
          LET sp == [speak EXCEPT !.last = res]
          IN /\ ~Delivered_response(res)
             /\ IF res.raised
                THEN speak' = [sp EXCEPT !.pc = "errorsend",
                                         !.propagated = @ + 1]
                ELSE AfterSpeak([sp EXCEPT
                         !.failures = @ + 1,
                         !.failed_at = IF @ = 0 THEN speak.index ELSE @])
    /\ UNCHANGED <<now, ticks, channels, entity_group, last_processed, ev,
                   chat, stop_log, stop_mark, loaded_from, normalized,
                   processed, ghost_chat, channel_webhooks, hook>>

\* the delay between two entities is over: the next iteration begins
SpeakSleepReturn ==
    /\ speak.pc = "sleeping"
    /\ SpeakTurn(speak, channels)
    /\ UNCHANGED <<now, ticks, channels, entity_group, last_processed, ev,
                   chat, stop_log, stop_mark, loaded_from, normalized,
                   processed, ghost_chat, channel_webhooks, hook>>

\* the "stopped during !speak" notice was sent and cmd_speak returns, or
\* the notice of the except clause was sent and the loop goes on
SpeakSendReturn ==
    /\ speak.pc \in {"stopsend", "errorsend"}
    /\ IF speak.pc = "stopsend"
       THEN speak' = [speak EXCEPT !.pc = "exited", !.exit = "stopped"]
       ELSE IF speak.index < Len(speak.entitys_to_speak)
       THEN SpeakTurn(speak, channels)
       ELSE speak' = [speak EXCEPT !.pc = "exited", !.exit = "completed"]
    /\ UNCHANGED <<now, ticks, channels, entity_group, last_processed, ev,
                   chat, stop_log, stop_mark, loaded_from, normalized,
                   processed, ghost_chat, channel_webhooks, hook>>

\* ------------------------------------------------- GhostBot.cmd_ghost_chat
\* the handles of the ghosts of the loaded GhostGroup
DefaultGhosts == <<"ab", "a", "b">>

\* the lists valid_ghosts of a chat: two or three distinct ghosts
GhostLists ==
    { <<DefaultGhosts[i], DefaultGhosts[j]>> :
          i \in 1..Len(DefaultGhosts),
          j \in 1..Len(DefaultGhosts) } \cup { DefaultGhosts }

\* the lists GhostLists without those that repeat a ghost
DistinctGhostLists == { l \in GhostLists : l[1] # l[2] }

\* the cmd_ghost_chat handler when it is not running
IdleGhostChat ==
    [ pc |-> "idle", speaker_queue |-> <<>>, num_turns |-> 0, turn |-> 0,
      current_ghost |-> None, prev_ghost |-> None, queue_size |-> 0,
      selected_index |-> 0 ]

\* `max(1, queue_size + 1 // 2)`: the division binds tighter than the sum
ghost_half_size(queue_size) == Max(1, queue_size + (1 \div 2))

\* the head of one loop iteration of cmd_ghost_chat for the handler state
\* g: the cooldown check, whose outcome `stopped` depends on the !stop
\* commands of the channel, then the choice of the speaker up to the call
\* of activate_ghost
GhostTurn(g, stopped) ==
    IF stopped
    THEN ghost_chat' = [g EXCEPT !.pc = "stopsend"]
    ELSE LET queue_size == Len(g.speaker_queue)
         IN \E selected_index \in
                    IF queue_size > 1 THEN 0..(ghost_half_size(queue_size) - 1)
                    ELSE {0} :
               ghost_chat' =
                   [g EXCEPT !.pc = "activating",
                             !.queue_size = queue_size,
                             !.selected_index = selected_index,
                             !.prev_ghost = g.current_ghost,
                             !.current_ghost = g.speaker_queue[selected_index + 1],
                             !.speaker_queue = Requeue(g.speaker_queue, selected_index)]

\* cmd_ghost_chat has validated its arguments and sent the announcement:
\* the queue is valid_ghosts shuffled by the permutation p, and the first
\* turn begins
GhostChatStart(valid_ghosts, num_turns, p, stopped) ==
    /\ ghost_chat.pc \in {"idle", "exited"}
    /\ DOMAIN p = 1..Len(valid_ghosts)
    /\ GhostTurn([IdleGhostChat EXCEPT
                     !.speaker_queue = [i \in 1..Len(valid_ghosts) |-> valid_ghosts[p[i]]],
                     !.num_turns = num_turns], stopped)
    /\ UNCHANGED <<now, ticks, channels, entity_group, last_processed, ev,
                   chat, stop_log, stop_mark, loaded_from, speak, normalized,
                   processed, channel_webhooks, hook>>

\* activate_ghost returns (it lets no Exception escape): the delay, unless
\* this was the last turn, after which the completion notice is sent
GhostActivateReturn ==
    /\ ghost_chat.pc = "activating"
    /\ ghost_chat' = [ghost_chat EXCEPT !.pc =
                         IF ghost_chat.turn < ghost_chat.num_turns - 1
                         THEN "sleeping" ELSE "donesend"]
    /\ UNCHANGED <<now, ticks, channels, entity_group, last_processed, ev,
                   chat, stop_log, stop_mark, loaded_from, speak, normalized,
                   processed, channel_webhooks, hook>>

\* activate_ghost raises: the except clause sends the error notice
GhostActivateFail ==
    /\ ghost_chat.pc = "activating"
    /\ ghost_chat' = [ghost_chat EXCEPT !.pc = "errsend"]
    /\ UNCHANGED <<now, ticks, channels, entity_group, last_processed, ev,
                   chat, stop_log, stop_mark, loaded_from, speak, normalized,
                   processed, channel_webhooks, hook>>

\* the error notice was sent: `continue`, without a delay, to the next
\* turn, or past the loop to the completion notice
GhostErrorSendReturn(stopped) ==
    /\ ghost_chat.pc = "errsend"
    /\ IF ghost_chat.turn < ghost_chat.num_turns - 1
       THEN GhostTurn([ghost_chat EXCEPT !.turn = @ + 1], stopped)
       ELSE ghost_chat' = [ghost_chat EXCEPT !.pc = "donesend"]
    /\ UNCHANGED <<now, ticks, channels, entity_group, last_processed, ev,
                   chat, stop_log, stop_mark, loaded_from, speak, normalized,
                   processed, channel_webhooks, hook>>

\* the delay is over: the next turn begins
GhostSleepReturn(stopped) ==
    /\ ghost_chat.pc = "sleeping"
    /\ GhostTurn([ghost_chat EXCEPT !.turn = @ + 1], stopped)
    /\ UNCHANGED <<now, ticks, channels, entity_group, last_processed, ev,
                   chat, stop_log, stop_mark, loaded_from, speak, normalized,
                   processed, channel_webhooks, hook>>

\* the stop notice or the completion notice was sent: the command returns
GhostSendReturn ==
    /\ ghost_chat.pc \in {"stopsend", "donesend"}
    /\ ghost_chat' = [ghost_chat EXCEPT !.pc = "exited"]
    /\ UNCHANGED <<now, ticks, channels, entity_group, last_processed, ev,
                   chat, stop_log, stop_mark, loaded_from, speak, normalized,
                   processed, channel_webhooks, hook>>

\* --------------------------------------------------- get_or_create_webhook
\* the activations that can be in flight at the same time
Tasks == {1, 2}

\* a call of get_or_create_webhook that has not begun
IdleCall == [pc |-> "idle", channel |-> 0, webhook |-> 0]

\* no call of get_or_create_webhook is in flight; on the platform:
\* existing is the number of webhooks named "Entity Bot" of each channel
\* (the webhooks of a channel are numbered from 1 in the order of their
\* creation); history: n_calls counts the calls of get_or_create_webhook,
\* create_calls those of channel.create_webhook
IdleHook ==
    [ calls |-> [t \in Tasks |-> IdleCall],
      existing |-> [c \in ChannelIds |-> 0],
      create_calls |-> [c \in ChannelIds |-> 0],
      n_calls |-> 0 ]

\* the activation t calls get_or_create_webhook(channel): the cached
\* webhook is returned, or channel.webhooks() is awaited
HookCall(t, channel) ==
    /\ hook.calls[t].pc \in {"idle", "returned"}
    /\ hook.n_calls < MaxHookCalls
    /\ hook' = [hook EXCEPT
                   !.n_calls = @ + 1,
                   !.calls[t] =
                       IF channel_webhooks[channel] # 0
                       THEN [pc |-> "returned", channel |-> channel,
                             webhook |-> channel_webhooks[channel]]
                       ELSE [pc |-> "listing", channel |-> channel,
                             webhook |-> 0]]
    /\ UNCHANGED <<now, ticks, channels, entity_group, last_processed, ev,
                   chat, stop_log, stop_mark, loaded_from, speak, normalized,
                   processed, ghost_chat, channel_webhooks>>

\* channel.webhooks() returns the webhooks the channel has by now: the
\* first one named "Entity Bot" is cached and returned, and when there is
\* none channel.create_webhook is called
HookListReturn(t) ==
    /\ hook.calls[t].pc = "listing"
    /\ LET channel == hook.calls[t].channel
       IN IF hook.existing[channel] > 0
          THEN /\ channel_webhooks' = [channel_webhooks EXCEPT ![channel] = 1]
               /\ hook' = [hook EXCEPT !.calls[t].pc = "returned",
                                       !.calls[t].webhook = 1]
          ELSE /\ hook' = [hook EXCEPT !.calls[t].pc = "creating",
                                       !.create_calls[channel] = @ + 1]
               /\ UNCHANGED channel_webhooks
    /\ UNCHANGED <<now, ticks, channels, entity_group, last_processed, ev,
                   chat, stop_log, stop_mark, loaded_from, speak, normalized,
                   processed, ghost_chat>>

\* channel.create_webhook returns the webhook it made, which is cached and
\* returned, or raises discord.Forbidden (~permitted), and None is returned
HookCreateReturn(t, permitted) ==
    /\ hook.calls[t].pc = "creating"
    /\ LET channel == hook.calls[t].channel
           webhook == hook.existing[channel] + 1
       IN IF permitted
          THEN /\ channel_webhooks' = [channel_webhooks EXCEPT ![channel] = webhook]
               /\ hook' = [hook EXCEPT !.calls[t].pc = "returned",
                                       !.calls[t].webhook = webhook,
                                       !.existing[channel] = webhook]
          ELSE /\ hook' = [hook EXCEPT !.calls[t].pc = "returned"]
               /\ UNCHANGED channel_webhooks
    /\ UNCHANGED <<now, ticks, channels, entity_group, last_processed, ev,
                   chat, stop_log, stop_mark, loaded_from, speak, normalized,
                   processed, ghost_chat>>

\* ---------------------------------------------------------- specifications
\* clock advances: just below the cooldown window, and the rest of it
TickSteps == {1, StopWindow - 1}

\* the outcomes of random.shuffle, as permutations of the positions
Shuffles ==
    UNION {Permutations(1..n) : n \in 2..Len(DefaultEntities)}

Init ==
    /\ now = Epoch
    /\ ticks = 0
    /\ channels = <<>>
    /\ entity_group = DefaultEntities
    /\ last_processed = 0
    /\ ev = IdleEv
    /\ chat = [s \in Sessions |-> IdleChat]
    /\ stop_log = [c \in ChannelIds |-> -1]
    /\ stop_mark = [s \in Sessions |-> -1]
    /\ loaded_from =
           [loaded |-> FALSE, exists |-> TRUE, files |-> <<>>,
            ignore_errors |-> TRUE, result |-> [raised |-> FALSE, group |-> <<>>]]
    /\ speak = IdleSpeak
    /\ normalized = [called |-> FALSE, name |-> <<>>, result |-> <<>>]
    /\ processed = [id \in 1..MaxMsgId |-> 0]
    /\ ghost_chat = IdleGhostChat
    /\ channel_webhooks = [c \in ChannelIds |-> 0]
    /\ hook = IdleHook

\* the platform delivers the messages in the order of their ids
Fresh(m) == m.id = last_processed + 1

\* a delivery of a new message, or of the latest one once more
Delivered(m) == m.id \in {last_processed, last_processed + 1}

\* channel state and mention resolution
Next ==
    \/ \E d \in TickSteps : Tick(d)
    \/ \E m \in SkipMessages : m.channel = 1 /\ Delivered(m) /\ OnMessageSkip(m)
    \/ /\ ev.pc \in {"idle", "done"}
       /\ \E m \in MentionMessages : Fresh(m) /\ OnMessage(m)
    \/ \E r \in RefMessages : FetchReturn(r)
    \/ BlockSendReturn
    \/ EvActivateReturn
    \/ \E m \in CommandMessages : Fresh(m) /\ CmdStop(m)

Spec == Init /\ [][Next]_vars

\* one chat session on channel 1, with !stop and the clock
NextChat ==
    \/ \E d \in TickSteps : Tick(d)
    \/ \E m \in CommandMessages : Fresh(m) /\ m.channel = 1 /\ CmdStop(m)
    \/ \E m \in CommandMessages, args \in ChatArgs :
          Fresh(m) /\ m.channel = 1 /\ CmdChat(1, m, args)
    \/ \E p \in Shuffles : ChatStart(1, p)
    \/ ChatActivateReturn(1)
    \/ ChatSleepReturn(1)
    \/ ChatSendReturn(1)
    \/ ChatRaise(1)

SpecChat == Init /\ [][NextChat]_vars

\* one chat session on channel 1 whose activations can fail, at one clock
\* value
NextChatFail ==
    \/ \E m \in CommandMessages : Fresh(m) /\ m.channel = 1 /\ CmdStop(m)
    \/ \E m \in CommandMessages, args \in ChatArgs :
          Fresh(m) /\ m.channel = 1 /\ CmdChat(1, m, args)
    \/ \E p \in Shuffles : ChatStart(1, p)
    \/ ChatActivateReturn(1)
    \/ ChatActivateFail(1)
    \/ ChatSleepReturn(1)
    \/ ChatSendReturn(1)
    \/ ChatRaise(1)

SpecChatFail == Init /\ [][NextChatFail]_vars

\* the argument lists of the long sessions: every entity, and two of them
SchedArgs ==
    { <<IntArg(SchedTurns)>>,
      <<NameArg("a"), NameArg("b"), IntArg(SchedTurns)>> }

\* long chat sessions on channel 1 that nothing interrupts
NextSched ==
    \/ \E m \in CommandMessages, args \in SchedArgs :
          Fresh(m) /\ m.channel = 1 /\ CmdChat(1, m, args)
    \/ \E p \in Shuffles : ChatStart(1, p)
    \/ ChatActivateReturn(1)
    \/ ChatSleepReturn(1)
    \/ ChatSendReturn(1)

SpecSched == Init /\ [][NextSched]_vars

\* mention resolution of replies of every text
NextMention ==
    \/ /\ ev.pc \in {"idle", "done"}
       /\ last_processed < MaxMsgId
       /\ \E t \in Texts : OnMessage(TextMessage(last_processed + 1, t))
    \/ \E r \in RefMessages : FetchReturn(r)
    \/ EvActivateReturn

SpecMention == Init /\ [][NextMention]_vars

\* the argument lists of the sessions that run beside mention resolution:
\* two of the entities, and every entity
FilterArgs ==
    { <<NameArg("a"), NameArg("b"), IntArg(MaxTurns)>>, <<IntArg(MaxTurns)>> }

\* mention resolution on channel 1 beside a chat session and !stop, at one
\* clock value
NextFilter ==
    \/ \E m \in CommandMessages, args \in FilterArgs :
          Fresh(m) /\ m.channel = 1 /\ CmdChat(1, m, args)
    \/ \E p \in Shuffles : ChatStart(1, p)
    \/ ChatActivateReturn(1)
    \/ ChatSleepReturn(1)
    \/ ChatSendReturn(1)
    \/ \E m \in CommandMessages : Fresh(m) /\ m.channel = 1 /\ CmdStop(m)
    \/ \E m \in MentionMessages : Fresh(m) /\ m.channel = 1 /\ OnMessage(m)
    \/ \E r \in RefMessages : FetchReturn(r)
    \/ BlockSendReturn
    \/ EvActivateReturn

SpecFilter == Init /\ [][NextFilter]_vars

\* one reload of the registry, from every directory: the loaded registry
\* does not depend on the one it replaces
NextLoad ==
    /\ ~loaded_from.loaded
    /\ \E m \in CommandMessages, g \in GlobResults :
          Fresh(m) /\ m.channel = 1 /\ CmdReload(m, g)

SpecLoad == Init /\ [][NextLoad]_vars

\* one call of load_from_directory, for every directory and both values of
\* ignore_errors
NextLoadCall ==
    /\ ~loaded_from.loaded
    /\ \E exists \in BOOLEAN, g \in GlobResults, ignore_errors \in BOOLEAN :
          LoadCall(exists, g, ignore_errors)

SpecLoadCall == Init /\ [][NextLoadCall]_vars

\* three directories: an empty one, one with a generated and a manual file
\* of two handles, one with two files of one handle and a file that fails
ReloadGlobs ==
    { <<>>,
      << [stem |-> "a", handle |-> "a", ok |-> TRUE],
         [stem |-> "A", handle |-> "b", ok |-> TRUE] >>,
      << [stem |-> "b", handle |-> "a", ok |-> TRUE],
         [stem |-> "A", handle |-> "a", ok |-> TRUE],
         [stem |-> "a", handle |-> "b", ok |-> FALSE] >> }

\* !reload beside mention resolution and a chat session on channel 1
NextReload ==
    \/ \E m \in CommandMessages, g \in ReloadGlobs :
          Fresh(m) /\ m.channel = 1 /\ CmdReload(m, g)
    \/ \E m \in MentionMessages : Fresh(m) /\ m.channel = 1 /\ OnMessage(m)
    \/ \E r \in RefMessages : FetchReturn(r)
    \/ EvActivateReturn
    \/ \E m \in CommandMessages :
          Fresh(m) /\ m.channel = 1 /\ CmdChat(1, m, <<IntArg(MaxTurns)>>)
    \/ \E p \in Shuffles : ChatStart(1, p)
    \/ ChatActivateReturn(1)
    \/ ChatSleepReturn(1)
    \/ ChatSendReturn(1)

SpecReload == Init /\ [][NextReload]_vars

\* chat sessions and !stop on both channels, interleaved at their awaits
NextChannels ==
    \/ \E m \in CommandMessages : Fresh(m) /\ CmdStop(m)
    \/ \E s \in Sessions, m \in CommandMessages :
          Fresh(m) /\ CmdChat(s, m, <<IntArg(MaxTurns)>>)
    \/ \E s \in Sessions, p \in Shuffles : ChatStart(s, p)
    \/ \E s \in Sessions : ChatActivateReturn(s)
    \/ \E s \in Sessions : ChatSleepReturn(s)
    \/ \E s \in Sessions : ChatSendReturn(s)
    \/ \E s \in Sessions : ChatRaise(s)

SpecChannels == Init /\ [][NextChannels]_vars

\* the outcomes of random.shuffle on the handles of the registry
KeyShuffles == Permutations(1..Len(DefaultEntities))

\* !speak and !stop on channel 1, the clock, and activations that can fail
NextSpeak ==
    \/ \E d \in TickSteps : Tick(d)
    \/ \E m \in CommandMessages : Fresh(m) /\ m.channel = 1 /\ CmdStop(m)
    \/ /\ speak.pc \in {"idle", "exited"}
       /\ \E m \in {c \in CommandMessages : Fresh(c) /\ c.channel = 1},
             entity_handles \in SpeakArgs :
             \E p \in IF entity_handles = <<>> THEN KeyShuffles
                       ELSE {[i \in 1..Len(DefaultEntities) |-> i]} :
                CmdSpeak(m, entity_handles, p)
    \/ SpeakActivateReturn
    \/ SpeakActivateFail
    \/ SpeakSleepReturn
    \/ SpeakSendReturn

SpecSpeak == Init /\ [][NextSpeak]_vars

\* the display names: every string of at most MaxNameLen characters
Names == UNION {[1..k -> Char] : k \in 0..MaxNameLen}

\* one call of _normalize_name, for every display name
NextNormalize ==
    /\ ~normalized.called
    /\ \E name \in Names : NormalizeCall(name)

SpecNormalize == Init /\ [][NextNormalize]_vars

\* the number of deliveries that were not skipped as duplicates
RECURSIVE ProcessedUpTo(_)
ProcessedUpTo(n) == IF n = 0 THEN 0 ELSE processed[n] + ProcessedUpTo(n - 1)

\* mention resolution on channel 1 when the platform delivers messages
\* again, in any order
NextRedeliver ==
    \/ /\ ProcessedUpTo(MaxMsgId) < MaxDeliveries
       /\ ev.pc \in {"idle", "done"}
       /\ \E m \in MentionMessages : m.channel = 1 /\ OnMessage(m)
    \/ \E m \in SkipMessages :
          m.channel = 1 /\ Route(m) = "duplicate" /\ OnMessageSkip(m)
    \/ \E r \in RefMessages : FetchReturn(r)
    \/ EvActivateReturn

SpecRedeliver == Init /\ [][NextRedeliver]_vars

\* every kind of message delivered on channel 1: skipped ones, mentions
\* and !stop
NextRoute ==
    \/ \E m \in SkipMessages : m.channel = 1 /\ Delivered(m) /\ OnMessageSkip(m)
    \/ /\ ev.pc \in {"idle", "done"}
       /\ \E m \in MentionMessages : m.channel = 1 /\ Fresh(m) /\ OnMessage(m)
    \/ \E r \in RefMessages : FetchReturn(r)
    \/ BlockSendReturn
    \/ EvActivateReturn
    \/ \E m \in CommandMessages : m.channel = 1 /\ Fresh(m) /\ CmdStop(m)

SpecRoute == Init /\ [][NextRoute]_vars

\* one chat session on channel 1 with !stop and failing activations, at
\* one clock value, in which every await of the session comes back: the send
\* of the announcement, each activation, each delay and the send of the
\* closing notice return or raise
NextChatLive ==
    \/ \E m \in CommandMessages : Fresh(m) /\ m.channel = 1 /\ CmdStop(m)
    \/ \E m \in CommandMessages, args \in ChatArgs :
          Fresh(m) /\ m.channel = 1 /\ CmdChat(1, m, args)
    \/ \E p \in Shuffles : ChatStart(1, p)
    \/ ChatActivateReturn(1)
    \/ ChatActivateFail(1)
    \/ ChatSleepReturn(1)
    \/ ChatSendReturn(1)
    \/ ChatRaise(1)

SpecChatLive ==
    /\ Init /\ [][NextChatLive]_vars
    /\ WF_vars(\E p \in Shuffles : ChatStart(1, p))
    /\ WF_vars(ChatActivateReturn(1) \/ ChatActivateFail(1))
    /\ WF_vars(ChatSleepReturn(1))
    /\ WF_vars(ChatSendReturn(1))

\* the calls of get_or_create_webhook of two concurrent activations
NextHook ==
    \/ \E t \in Tasks, channel \in ChannelIds : HookCall(t, channel)
    \/ \E t \in Tasks : HookListReturn(t)
    \/ \E t \in Tasks, permitted \in BOOLEAN : HookCreateReturn(t, permitted)

SpecHook == Init /\ [][NextHook]_vars

\* one chat of GhostBot after another, of MaxTurns + 1 turns each
NextGhostChat ==
    \/ \E valid_ghosts \in DistinctGhostLists, p \in Shuffles, stopped \in BOOLEAN :
          GhostChatStart(valid_ghosts, MaxTurns + 1, p, stopped)
    \/ GhostActivateReturn
    \/ GhostActivateFail
    \/ \E stopped \in BOOLEAN : GhostErrorSendReturn(stopped)
    \/ \E stopped \in BOOLEAN : GhostSleepReturn(stopped)
    \/ GhostSendReturn

SpecGhostChat == Init /\ [][NextGhostChat]_vars

\* ------------------------------------------------------------------ claims
\* C1: an event with a candidate or a bot mention that reaches the cooldown
\* check on a Stopped channel, and is not a direct human mention of the bot,
\* is blocked: no candidate is kept and no persona is activated.
C1_BlockedWhileStopped ==
    (ev.gate = "stopped" /\ ~ev.direct_user)
        => (ev.blocked /\ ev.unique_entitys = <<>> /\ ev.begun = 0
            /\ ev.pc \in {"blocksend", "done"})

\* a pseudo-mention of a persona was dropped on a Stopped channel
C1_Witness ==
    /\ ev.pc = "done" /\ ev.gate = "stopped" /\ ~ev.direct_user
    /\ ev.mentioned_entities # <<>> /\ ev.blocked

\* C2: a direct human mention of the bot that reaches the cooldown check on
\* a Stopped channel is not blocked and a persona is activated.
C2_DirectMentionExempt ==
    (ev.gate = "stopped" /\ ev.direct_user)
        => (~ev.blocked /\ ev.unique_entitys # <<>> /\ ev.begun >= 1)

\* C3: right after stop(c), at the same clock value, c is Stopped and its
\* participant set is empty, whatever they were before.
C3_StopEffect ==
    [][\A m \in CommandMessages :
          CmdStop(m) => /\ is_stopped(channels'[m.channel], now')
                        /\ channels'[m.channel].chat_participants = <<>>]_vars

\* a stop was issued on a channel whose session had added its participants
C3_Witness ==
    \E s \in Sessions :
        /\ chat[s].pc \in {"activating", "sleeping"}
        /\ stop_log[chat[s].channel] = now
        /\ stop_mark[s] # -1
        /\ channels[chat[s].channel].chat_participants = <<>>

\* C4: a channel is Stopped exactly when its latest stop is less than 30
\* time units old; a channel that was never stopped is not Stopped.
C4_StoppedIffRecentStop ==
    \A c \in DOMAIN channels :
        is_stopped(channels[c], now)
            <=> (stop_log[c] # -1 /\ now - stop_log[c] < 30)

\* one channel's cooldown has run out by time alone, while another one is
\* Stopped by a stop issued after the clock had advanced
C4_Witness ==
    \E c, d \in DOMAIN channels :
        /\ stop_log[c] # -1 /\ now - stop_log[c] >= 30
        /\ ~is_stopped(channels[c], now)
        /\ stop_log[d] > Epoch /\ is_stopped(channels[d], now)

\* C5: a channel id that mention resolution references for the first time
\* gets an Active state with no participants, and the event is not blocked.
C5_NewChannelActive ==
    [][\A c \in ChannelIds :
          (c \notin DOMAIN channels /\ c \in DOMAIN channels'
              /\ stop_log'[c] = stop_log[c] /\ chat' = chat)
          => /\ ~is_stopped(channels'[c], now')
             /\ channels'[c].chat_participants = <<>>
             /\ ev'.gate # "stopped"]_vars

\* a channel that was never stopped was referenced by an event after the
\* clock had advanced, while the other channel does not exist yet
C5_Witness ==
    \E c \in ChannelIds :
        /\ DOMAIN channels = {c} /\ stop_log[c] = -1
        /\ ev.channel = c /\ ev.gate = "open" /\ ticks = MaxTicks
        /\ ~is_stopped(channels[c], now)

\* C6: with more than one element in the queue, the speaker of a turn is
\* not the speaker of the turn before.
C6_NoConsecutiveRepeat ==
    \A s \in Sessions :
        (chat[s].prev_entity # None /\ Len(chat[s].speaker_queue) > 1)
            => chat[s].current_entity # chat[s].prev_entity

\* C7: after a turn the speaker is the tail of the queue and the rest of the
\* queue is the queue of before the turn without one occurrence of the
\* speaker, in the same order.
C7_SpeakerAtTail ==
    \A s \in Sessions :
        chat[s].activations > 0 =>
            LET q == chat[s].speaker_queue
                before == chat[s].prev_queue
            IN /\ Len(q) = Len(before)
               /\ q[Len(q)].handle = chat[s].current_entity
               /\ \E j \in 1..Len(before) :
                     /\ before[j] = q[Len(q)]
                     /\ \A i \in 1..(Len(q) - 1) :
                           q[i] = before[IF i < j THEN i ELSE i + 1]

\* the second of three queued personas spoke
C7_Witness ==
    \E s \in Sessions :
        /\ chat[s].activations >= 2
        /\ Len(chat[s].speaker_queue) = 3
        /\ chat[s].selected_index = 1

\* C8: when a session that has added its participants exits (completion,
\* abort on stop, or exception), the participant set of its channel is
\* empty right after that exit.
C8_CleanupOnExit ==
    [][\A s \in Sessions :
          (chat[s].pc \in {"activating", "sleeping", "stopsend", "donesend"}
              /\ chat'[s].pc = "exited")
          => channels'[chat[s].channel].chat_participants = <<>>]_vars

\* a session left by an exception on a channel that was never stopped
C8_Witness ==
    \E s \in Sessions :
        /\ chat[s].pc = "exited" /\ chat[s].exit = "exception"
        /\ chat[s].activations >= 1
        /\ stop_log[chat[s].channel] = -1
        /\ channels[chat[s].channel].chat_participants = <<>>

\* C9: once the check at the start of a turn finds the channel Stopped, the
\* session has made exactly the activations of the turns before, and makes
\* no more; a session that starts on a Stopped channel makes none.
C9_AbortAtBoundary ==
    \A s \in Sessions :
        /\ chat[s].abort_turn # -1 =>
              /\ chat[s].activations = chat[s].abort_turn
              /\ chat[s].pc \in {"stopsend", "exited"}
        /\ chat[s].start_stopped =>
              (chat[s].activations = 0 /\ chat[s].abort_turn = 0)

\* one session was aborted after its first turn, by a stop
C9_Witness ==
    \E s \in Sessions :
        /\ chat[s].exit = "stopped" /\ chat[s].abort_turn >= 1
        /\ chat[s].activations = chat[s].abort_turn

\* C10: after a stop issued during an activation or a delay of a session
\* with turns remaining, the session starts no further activation.
C10_StopEndsSession ==
    \A s \in Sessions :
        stop_mark[s] # -1 => chat[s].activations = stop_mark[s]

\* C11: an activation that fails does not end the session: as long as no
\* check at the start of a turn has found the channel Stopped, every turn
\* reached so far has invoked one activation, and a session that completes
\* has invoked exactly num_turns activations, however many of them failed.
C11_FailureNotFatal ==
    \A s \in Sessions :
        /\ (chat[s].abort_turn = -1
              /\ chat[s].pc \in {"activating", "sleeping", "donesend"})
              => (chat[s].activations = chat[s].turn + 1
                  /\ chat[s].failures <= chat[s].activations)
        /\ chat[s].pc = "sleeping" => chat[s].turn < chat[s].num_turns - 1
        /\ (chat[s].pc = "donesend" \/ chat[s].exit = "completed")
              => chat[s].activations = chat[s].num_turns

\* a session completed although each of its activations failed
C11_Witness ==
    \E s \in Sessions :
        /\ chat[s].exit = "completed" /\ chat[s].num_turns = MaxTurns
        /\ chat[s].failures = MaxTurns /\ chat[s].activations = MaxTurns
        /\ chat[s].abort_turn = -1

\* the handles of a queue are pairwise distinct
DistinctQueue(q) ==
    \A i, j \in 1..Len(q) : q[i].handle = q[j].handle => i = j

\* a bound on consecutive turns that would depend on the queue length only
WaitBound(n) == 2 * n

\* C12 as claimed: in a session of distinct personas every persona speaks
\* at least once in every WaitBound(n) consecutive turns, whatever indices
\* the scheduler draws.
C12_NoStarvation ==
    \A s \in Sessions :
        DistinctQueue(chat[s].speaker_queue) =>
            \A h \in DOMAIN chat[s].waited :
                chat[s].waited[h] < WaitBound(Len(chat[s].speaker_queue))

\* C12, amended: a persona that is not selected never moves back in the
\* queue: after w turns without speaking it is at a position no later than
\* max(half, n - w), so it is among the selectable positions within
\* n - half turns and stays there until it speaks; with two personas the
\* speakers alternate (every persona speaks in every 2 consecutive turns).
C12_BoundedApproach ==
    \A s \in Sessions :
        LET q == chat[s].speaker_queue
            n == Len(q)
        IN (n >= 2 /\ DistinctQueue(q)) =>
              /\ \A i \in 1..n :
                    i <= Max(half_size(n), n - chat[s].waited[q[i].handle])
              /\ n = 2 => \A h \in DOMAIN chat[s].waited : chat[s].waited[h] < 2

\* the head of a queue of three has been passed over in six turns running
C12_Witness ==
    \E s \in Sessions :
        /\ Len(chat[s].speaker_queue) = 3
        /\ DistinctQueue(chat[s].speaker_queue)
        /\ chat[s].waited[chat[s].speaker_queue[1].handle] >= 6

\* the first turn or the next turn of session s can begin with index i
CanSelect(s, i) ==
    \/ ENABLED (/\ \E p \in Shuffles : ChatStart(s, p)
                /\ chat'[s].pc = "activating"
                /\ chat'[s].selected_index = i)
    \/ ENABLED (/\ ChatSleepReturn(s)
                /\ chat'[s].pc = "activating"
                /\ chat'[s].selected_index = i)

\* the queue length at the next selection of session s
NextQueueSize(s) ==
    IF chat[s].pc = "announce" THEN Len(chat[s].valid_entitys)
    ELSE Len(chat[s].speaker_queue)

\* C13 as claimed: at a turn with queue length k the selectable indices are
\* exactly 0 .. half - 1 with half = max(1, ceil((k + 1) / 2)).
C13_IndexSetCeil ==
    \A s \in Sessions :
        chat[s].pc \in {"announce", "sleeping"} =>
            \A i \in 0..(NextQueueSize(s) - 1) :
                CanSelect(s, i)
                    <=> i < Max(1, (NextQueueSize(s) + 1 + 1) \div 2)

\* C13, amended: at a turn with queue length k the selectable indices are
\* exactly those below k / 2, that is 0 .. half - 1 with
\* half = max(1, floor((k + 1) / 2)).
C13_IndexSetFloor ==
    \A s \in Sessions :
        chat[s].pc \in {"announce", "sleeping"} =>
            \A i \in 0..(NextQueueSize(s) - 1) :
                CanSelect(s, i) <=> (i = 0 \/ 2 * i < NextQueueSize(s))

\* a session of two personas is about to select the speaker of a later
\* turn
C13_Witness ==
    \E s \in Sessions :
        /\ chat[s].pc = "sleeping" /\ Len(chat[s].speaker_queue) = 2
        /\ last_processed = MaxMsgId /\ chat[s].turn >= 1

\* x occurs in s at offset i
OccursAt(s, x, i) ==
    i + Len(x) <= Len(s) /\ \A j \in 1..Len(x) : s[i + j] = x[j]

\* the offset of the first occurrence of x in s (x occurs in s)
FirstAt(s, x) ==
    CHOOSE i \in 0..Len(s) :
        OccursAt(s, x, i) /\ \A k \in 0..(i - 1) : ~OccursAt(s, x, k)

\* "@" followed by the handle of entity e, in lower case
AtHandle(e) == <<"@">> \o Lower(HandleChars(e.handle))

\* C14: find_entity_by_mention returns the registry personas whose
\* "@handle" occurs in the text, compared in lower case, each at most once,
\* in the order of their first mention in the text.
C14_MentionOrder ==
    ev.pc = "fetch" =>
        LET found == ev.mentioned_entities
            text == Lower(ev.content)
        IN /\ \A i, j \in 1..Len(found) : found[i] = found[j] => i = j
           /\ Range(found) =
                 {e \in Range(entity_group) : Contains(text, AtHandle(e))}
           /\ \A i, j \in 1..Len(found) :
                 i < j => FirstAt(text, AtHandle(found[i]))
                              <= FirstAt(text, AtHandle(found[j]))

\* C15: an event that is not a direct human mention of the bot activates no
\* persona whose handle was a chat participant of the channel when the event
\* was resolved, the random fallback included; a direct human mention with
\* candidates activates all of them, participants or not.
C15_ParticipantsFiltered ==
    /\ (ev.gate = "open" /\ ~ev.direct_user) =>
          \A i \in 1..Len(ev.unique_entitys) :
              ~InList(ev.unique_entitys[i].handle, ev.in_chat)
    /\ (ev.gate = "open" /\ ev.direct_user /\ ev.mentioned_entities # <<>>) =>
          Range(ev.unique_entitys) = Range(ev.mentioned_entities)

\* C16: on an Active channel, when no candidate is left after the filter,
\* a direct mention of the bot (of a human: proxies are excluded) with a
\* non-empty registry activates exactly one persona and it is in the
\* registry; any other event with no candidate left activates nobody.
C16_FallbackRule ==
    (ev.gate = "open" /\ ev.filtered_entitys = <<>>) =>
        IF ev.direct_user /\ Len(entity_group) > 0
        THEN /\ Len(ev.unique_entitys) = 1
             /\ ev.unique_entitys[1] \in Range(entity_group)
             /\ ev.begun = 1
        ELSE ev.unique_entitys = <<>> /\ ev.begun = 0

\* C17: a proxy-authored event that mentions the bot's account and has no
\* candidate left after the filter does not get a fallback persona: nobody
\* is activated.
C17_ProxyNotDirect ==
    (ev.gate = "open" /\ ev.proxy /\ ev.is_direct_mention
        /\ ev.filtered_entitys = <<>>)
        => (~ev.fallback /\ ev.unique_entitys = <<>> /\ ev.begun = 0)

\* C18: when the referenced message of a reply is identified as persona P,
\* the candidates are P followed by the pseudo-mentions in their order if P
\* is not among them, and the pseudo-mentions unchanged if it is; when the
\* fetch fails the candidates are the pseudo-mentions and resolution goes
\* on.  On an open channel without chat participants the personas
\* activated are these candidates.
C18_ReplyPrepend ==
    /\ (ev.reply_to # None /\ ~InList(ev.reply_to, Handles(ev.pseudo))) =>
          /\ ev.mentioned_entities # <<>>
          /\ Head(ev.mentioned_entities).handle = ev.reply_to
          /\ Head(ev.mentioned_entities) \in Range(entity_group)
          /\ Tail(ev.mentioned_entities) = ev.pseudo
    /\ (ev.reply_to # None /\ InList(ev.reply_to, Handles(ev.pseudo))) =>
          ev.mentioned_entities = ev.pseudo
    /\ ev.fetch_failed =>
          /\ ev.mentioned_entities = ev.pseudo
          /\ ev.pc \in {"blocksend", "activating", "done"}
          /\ (ev.pseudo # <<>> => ev.gate # "none")
    /\ (ev.gate = "open" /\ ev.in_chat = <<>> /\ ev.mentioned_entities # <<>>
           /\ (ev.reply_to # None \/ ev.fetch_failed)) =>
          ev.unique_entitys = ev.mentioned_entities

\* a reply to a message of persona ab that pseudo-mentions a and b has
\* activated ab, a and b
C18_Witness ==
    /\ ev.pc = "done" /\ ev.reply_to = "ab" /\ Len(ev.pseudo) = 2
    /\ Handles(ev.unique_entitys) = <<"ab">> \o Handles(ev.pseudo)
    /\ ev.begun = 3

\* the position of the first element of list l whose handle is h
FirstIndex(l, h) ==
    CHOOSE i \in 1..Len(l) :
        l[i].handle = h /\ \A k \in 1..(i - 1) : l[k].handle # h

\* C19: the personas activated for one event have pairwise distinct
\* handles and, unless the random fallback chose, are the candidates left
\* by the filter in the order of their first occurrence among the
\* candidates (reply target, pseudo-mentions, proxy-author mentions).
C19_DedupKeepsOrder ==
    LET u == ev.unique_entitys
    IN /\ \A i, j \in 1..Len(u) : u[i].handle = u[j].handle => i = j
       /\ ev.begun <= Len(u)
       /\ ~ev.fallback =>
             /\ Range(u) = Range(ev.filtered_entitys)
             /\ Range(u) \subseteq Range(ev.mentioned_entities)
             /\ \A i, j \in 1..Len(u) :
                   i < j => FirstIndex(ev.mentioned_entities, u[i].handle)
                                < FirstIndex(ev.mentioned_entities, u[j].handle)

\* a proxy-authored reply that mentions two personas has activated the
\* reply target and both of them
C19_Witness ==
    /\ ev.pc = "done" /\ ev.proxy /\ ev.reply_to # None
    /\ Len(ev.unique_entitys) = 3 /\ ev.begun = 3 /\ ~ev.fallback

\* the files of the latest reload that loaded and declare handle h
FilesOf(h) ==
    {loaded_from.files[i] : i \in 1..Len(loaded_from.files)}
        \cap [stem : Stems, handle : {h}, ok : {TRUE}]

\* the file of the non-empty set fs that is last in sort order
LastOf(fs) == CHOOSE f \in fs : \A o \in fs : StemRank(o.stem) <= StemRank(f.stem)

\* C20: after a load the registry holds exactly one persona for each handle
\* that a loaded file declares and none for any other; it comes from the
\* last generated file of the handle in sort order if there is one, and
\* from its last manual file otherwise.
C20_LoadWinner ==
    loaded_from.loaded =>
        \A h \in FileHandles :
            LET here == {i \in 1..Len(entity_group) : entity_group[i].handle = h}
                generated == {f \in FilesOf(h) : LowerChar(f.stem) = h}
                winner == IF generated # {} THEN LastOf(generated)
                          ELSE LastOf(FilesOf(h))
            IN IF FilesOf(h) = {} THEN here = {}
               ELSE /\ Cardinality(here) = 1
                    /\ \A i \in here : entity_group[i].name = <<winner.stem>>

\* four files of handle a were loaded, generated and manual ones in turn:
\* the entity is the one of the later generated file, not of the last file
C20_Witness ==
    /\ loaded_from.loaded
    /\ Cardinality(FilesOf("a")) = 4
    /\ Len(entity_group) = 1
    /\ entity_group[1].name = <<"a">>

\* the files of glob result g that load
Loadable(g) ==
    LET Keep[n \in 0..Len(g)] ==
            IF n = 0 THEN <<>>
            ELSE IF g[n].ok THEN Append(Keep[n - 1], g[n]) ELSE Keep[n - 1]
    IN Keep[Len(g)]

\* C21: with ignore_errors = False one file that fails to load makes the
\* load raise; with ignore_errors = True the load returns, and the group
\* holds a persona for every handle of a file that loads: it is the group
\* that the loadable files alone would give.
C21_StrictAborts ==
    (loaded_from.loaded
        /\ \E i \in 1..Len(loaded_from.files) : ~loaded_from.files[i].ok) =>
        IF ~loaded_from.ignore_errors THEN loaded_from.result.raised
        ELSE /\ ~loaded_from.result.raised
             /\ {e.handle : e \in Range(loaded_from.result.group)}
                  = {f.handle : f \in Range(Loadable(loaded_from.files))}
             /\ loaded_from.result.group
                  = load_from_directory(TRUE, Loadable(loaded_from.files), TRUE).group

\* a lenient load skipped one file and kept the entities of two others
C21_Witness ==
    /\ loaded_from.loaded /\ loaded_from.ignore_errors
    /\ Len(loaded_from.files) = 3
    /\ Len(Loadable(loaded_from.files)) = 2
    /\ Len(loaded_from.result.group) = 2

\* C22: when no persona ends up loaded (missing directory, no config file,
\* or no file that loads), the load raises if ignore_errors = False and
\* returns an empty group if ignore_errors = True.
C22_EmptyLoad ==
    (loaded_from.loaded
        /\ (~loaded_from.exists \/ Loadable(loaded_from.files) = <<>>)) =>
        IF ~loaded_from.ignore_errors THEN loaded_from.result.raised
        ELSE ~loaded_from.result.raised /\ loaded_from.result.group = <<>>

\* a strict load of a directory that does not exist has raised
C22_Witness ==
    /\ loaded_from.loaded /\ ~loaded_from.exists
    /\ ~loaded_from.ignore_errors /\ loaded_from.result.raised

\* the registry that the files of the latest reload give, computed from
\* the conflict rule in closed form: per handle the last generated file,
\* else the last manual file, the handles in the order of their first file
NewMapping ==
    LET sorted == SortFiles(Loadable(loaded_from.files))
        first(h) == CHOOSE i \in 1..Len(sorted) :
                        sorted[i].handle = h
                        /\ \A k \in 1..(i - 1) : sorted[k].handle # h
        hs == {sorted[i].handle : i \in 1..Len(sorted)}
        winner(h) ==
            LET fs == {f \in Range(sorted) : f.handle = h}
                gen == {f \in fs : LowerChar(f.stem) = h}
            IN IF gen # {} THEN LastOf(gen) ELSE LastOf(fs)
        place(h) == Cardinality({o \in hs : first(o) <= first(h)})
    IN [i \in 1..Cardinality(hs) |->
           LET h == CHOOSE h \in hs : place(h) = i
           IN [handle |-> h, name |-> <<winner(h).stem>>]]

\* the complete mappings that the registry can be: the one loaded at
\* startup and the one of each directory
WholeMappings ==
    {DefaultEntities}
        \cup {load_from_directory(TRUE, g, TRUE).group : g \in ReloadGlobs}

\* C23: at every point where a handler can read it, the registry is the
\* complete mapping of before the first reload or the complete mapping that
\* the files of the latest reload give, never a mixture; every entity that
\* a handler in flight or a running session holds is an entry of a complete
\* mapping, of the present one or of an earlier one.
C23_ReloadWholesale ==
    /\ entity_group = IF loaded_from.loaded THEN NewMapping ELSE DefaultEntities
    /\ \A e \in Range(ev.mentioned_entities) \cup Range(ev.unique_entitys)
               \cup Range(chat[1].speaker_queue) :
           \E whole \in WholeMappings : e \in Range(whole)

\* a reload has replaced the registry by one that lacks the handle ab while
\* a chat session still holds the entity ab of the old registry
C23_Witness ==
    /\ loaded_from.loaded
    /\ Len(entity_group) = 2
    /\ ~Has(entity_group, "ab")
    /\ chat[1].pc \in {"activating", "sleeping"}
    /\ \E i \in 1..Len(chat[1].speaker_queue) :
          chat[1].speaker_queue[i].handle = "ab"

\* the steps that mutate the state of channel c: cmd_stop for a command of
\* channel c, and the steps of a chat session of channel c that add the
\* participants or run the cleanup
ChannelOp(c) ==
    \/ \E m \in CommandMessages : m.channel = c /\ Fresh(m) /\ CmdStop(m)
    \/ \E s \in Sessions :
          /\ chat[s].channel = c
          /\ \/ \E p \in Shuffles : ChatStart(s, p)
             \/ ChatSendReturn(s)
             \/ ChatRaise(s)

\* C24: channel state is per channel: a stop, the adding of the participants
\* and the cleanup of a chat session on channel c leave the last stop time
\* and the participants of every other channel as they were, and no other
\* step changes the state of a channel that exists.
C24_ChannelFrame ==
    [][/\ \A c \in ChannelIds :
            ChannelOp(c) =>
                \A d \in (DOMAIN channels) \ {c} :
                    d \in DOMAIN channels' /\ channels'[d] = channels[d]
       /\ (\A c \in ChannelIds : ~ChannelOp(c)) => channels' = channels]_vars

\* C24 witness: the session of one channel has run its cleanup, or the
\* channel was stopped, while the other channel holds its participants
C24_Witness ==
    \E c, d \in ChannelIds :
        /\ c # d
        /\ c \in DOMAIN channels /\ d \in DOMAIN channels
        /\ channels[d].chat_participants # <<>>
        /\ \/ \E s \in Sessions : chat[s].channel = c /\ chat[s].pc = "exited"
                                   /\ chat[s].exit \in {"completed", "exception"}
           \/ stop_log[c] # -1

\* C25: when !speak has returned and one of the requested handles was absent
\* from the registry, every requested handle that is in the registry has
\* spoken, unless a cooldown check ended the sequence.
C25_AbsentNotFatal ==
    (/\ speak.pc = "exited"
     /\ speak.exit # "stopped"
     /\ \E i \in 1..Len(speak.entity_handles) :
            ~Has(entity_group, speak.entity_handles[i])) =>
        \A i \in 1..Len(speak.entity_handles) :
            Has(entity_group, speak.entity_handles[i])
                => InList(speak.entity_handles[i], speak.spoken)

\* l is a prefix of m
IsPrefix(l, m) == Len(l) <= Len(m) /\ \A i \in 1..Len(l) : l[i] = m[i]

\* the handler has passed the validation of its arguments
SpeakRuns ==
    speak.pc \in {"activating", "sleeping", "stopsend"}
        \/ (speak.pc = "exited" /\ speak.exit \in {"stopped", "completed"})

\* C26: !speak activates the requested personas in the given order (the
\* activations made so far are a prefix of the list, which is the list of
\* the requested handles when handles were given); every activation begins
\* at an instant at which the channel is not Stopped, the sequence ends
\* with the stop notice only when a check found the channel Stopped, and
\* after that it activates nobody; a sequence that was not stopped activates
\* its whole list, whatever the number of activations that failed.
C26_SpeakInOrder ==
    /\ [](SpeakRuns =>
            /\ IsPrefix(speak.spoken, Handles(speak.entitys_to_speak))
            /\ Len(speak.spoken) = speak.index
            /\ speak.entity_handles # <<>>
                   => Handles(speak.entitys_to_speak) = speak.entity_handles
            /\ speak.exit = "completed"
                   => speak.spoken = Handles(speak.entitys_to_speak))
    /\ [][/\ (speak'.spoken # <<>>
               /\ (speak'.id # speak.id \/ speak'.spoken # speak.spoken))
              => ~is_stopped(channels'[speak'.channel], now')
          /\ (speak'.pc = "stopsend" /\ speak.pc # "stopsend")
              => is_stopped(channels'[speak'.channel], now')
          /\ ((speak.pc = "stopsend" \/ speak.exit = "stopped")
                  /\ speak'.id = speak.id)
              => speak'.spoken = speak.spoken]_vars

\* C26 witness: of three requested personas the first one's activation
\* failed, the second one was activated all the same, and the check before
\* the third found the channel Stopped
C26_Witness ==
    /\ speak.pc = "exited" /\ speak.exit = "stopped"
    /\ speak.entity_handles = <<"b", "ab", "a">>
    /\ speak.failed_at = 1
    /\ speak.spoken = <<"b", "ab">>

\* C27: the result of normalizeName holds only letters, digits and single
\* spaces, and neither begins nor ends with a space.
C27_NormalizedAlphabet ==
    normalized.called =>
        LET r == normalized.result
        IN /\ \A i \in 1..Len(r) :
                  r[i] \in LowerLetters \cup UpperLetters \cup {"7"} \cup {" "}
           /\ \A i \in 1..(Len(r) - 1) : ~(r[i] = " " /\ r[i + 1] = " ")
           /\ r # <<>> => (r[1] # " " /\ r[Len(r)] # " ")

\* a name without the characters that are not letters, digits or whitespace
RECURSIVE KeepAlnumSpace(_)
KeepAlnumSpace(s) ==
    IF s = <<>> THEN <<>>
    ELSE IF Head(s) \in LowerLetters \cup UpperLetters \cup {"7"} \cup SpaceChars
         THEN <<Head(s)>> \o KeepAlnumSpace(Tail(s))
         ELSE KeepAlnumSpace(Tail(s))

\* the normalized name as C27 states it
ClaimedName(name) == JoinSplit(DropLeadingSpace(KeepAlnumSpace(name)), FALSE)

\* the registry positions whose normalized display name is that of the
\* author of r
NameMatches(r) ==
    {i \in 1..Len(entity_group) :
        ClaimedName(entity_group[i].name) = ClaimedName(r.author_name)}

\* C28: for a fetched message r, identifyPersonaFromMessage returns the
\* first persona, in registry order, whose normalized display name equals
\* the normalized author name when r has a webhook id and the discriminator
\* "0000" and there is such a persona, and returns none otherwise.
C28_IdentifyProxy ==
    [][\A r \in RefMessages :
          (r.fetched /\ FetchReturn(r)) =>
              ev'.reply_to =
                  IF r.webhook_id /\ r.discriminator = "0000" /\ NameMatches(r) # {}
                  THEN entity_group[CHOOSE i \in NameMatches(r) :
                                       \A j \in NameMatches(r) : i <= j].handle
                  ELSE None]_vars

\* C29: an activation returns normally to its caller whatever fails in it
\* (the loop of !speak never enters its except clause), and an activation
\* that did not deliver the generated text has tried to send a fallback
\* message naming the persona: the fallback text of the LLM call or the
\* error notice, the failure of whose send changes nothing.
C29_ActivationContained ==
    speak.last.called =>
        /\ ~speak.last.raised
        /\ speak.propagated = 0
        /\ speak.pc # "errorsend"
        /\ ~Delivered_response(speak.last) =>
               \E i \in 1..Len(speak.last.attempts) :
                   speak.last.attempts[i].text \in {"fallback_msg", "error_msg"}

\* C29 witness: the delivery of the generated text failed on both routes,
\* the send of the error notice failed too, and !speak went on to its delay
C29_Witness ==
    /\ speak.pc = "sleeping"
    /\ Len(speak.last.attempts) = 3
    /\ speak.last.attempts[1].text = "response"
    /\ \A i \in 1..3 : ~speak.last.attempts[i].ok
    /\ speak.last.attempts[3].text = "error_msg"

\* C30: a chat session that was started has at least 2 distinct personas
\* (among the entities it announces, then in its queue), and a request
\* that was refused has added no participant and activated nobody.
C30_TwoDistinctPersonas ==
    \A s \in Sessions :
        /\ chat[s].pc = "announce" =>
               \E i, j \in 1..Len(chat[s].valid_entitys) :
                   chat[s].valid_entitys[i].handle # chat[s].valid_entitys[j].handle
        /\ chat[s].pc \in {"activating", "sleeping", "stopsend", "donesend"} =>
               \E i, j \in 1..Len(chat[s].speaker_queue) :
                   chat[s].speaker_queue[i].handle # chat[s].speaker_queue[j].handle
        /\ (chat[s].pc = "exited" /\ chat[s].exit = "rejected") =>
               /\ chat[s].activations = 0
               /\ chat[s].channel \in DOMAIN channels =>
                      channels[chat[s].channel].chat_participants = <<>>

\* C31: find_entity_by_mention selects a persona only if its handle, in
\* lower case, is one of the whole @word tokens of the text in lower case.
C31_WholeToken ==
    ev.pc = "fetch" =>
        \A i \in 1..Len(ev.mentioned_entities) :
            InList(Lower(HandleChars(ev.mentioned_entities[i].handle)),
                   FindAllMentions(Lower(ev.content), 1))

\* C32: no message id is taken past the duplicate check of on_message more
\* than once, whatever is delivered in between.
C32_ProcessedOnce ==
    \A id \in 1..MaxMsgId : processed[id] <= 1

\* the messages that start with the command prefix or come from a regular
\* bot
PrefixOrBotMessages ==
    {m \in MentionMessages \cup SkipMessages :
        \/ StartsWith(m.content, command_prefix)
        \/ (m.author.author_bot /\ ~m.author.webhook_id)}

\* C33: the delivery of a message that starts with the command prefix is
\* never a step of mention resolution, and it is a command step only when
\* the author is no webhook; the delivery of a message of a regular bot is
\* neither; a delivery that is none of the two changes nothing but the
\* record of the processed ids.
C33_PrefixAndBots ==
    [][\A m \in PrefixOrBotMessages :
          (m.id = last_processed' /\ processed' # processed) =>
              /\ StartsWith(m.content, command_prefix) => ~OnMessage(m)
              /\ (StartsWith(m.content, command_prefix) /\ m.author.webhook_id)
                     => ~CmdStop(m)
              /\ (m.author.author_bot /\ ~m.author.webhook_id)
                     => (~OnMessage(m) /\ ~CmdStop(m))
              /\ OnMessageSkip(m) => (ev' = ev /\ channels' = channels)]_vars

\* C33 witness: a message got past the duplicate check and on_message
\* returned without a command and without mention resolution
C33_Witness ==
    /\ last_processed = 1 /\ processed[1] = 1
    /\ ev = IdleEv /\ channels = <<>>

\* C34: in a turn of the GhostBot chat with more than one ghost in the
\* queue the selected index is below ceil(k/2), and the speaker is not the
\* speaker of the turn before.
C34_GhostFirstHalf ==
    (ghost_chat.pc = "activating" /\ ghost_chat.queue_size > 1) =>
        /\ ghost_chat.selected_index < (ghost_chat.queue_size + 1) \div 2
        /\ ghost_chat.prev_ghost # None
               => ghost_chat.current_ghost # ghost_chat.prev_ghost

\* the number of positions of the list l that hold x
CountIn(l, x) == Cardinality({i \in 1..Len(l) : l[i] = x})

\* the lists l and k hold the same elements the same number of times
IsPermutationOf(l, k) ==
    /\ Len(l) = Len(k)
    /\ \A x \in Range(l) \cup Range(k) : CountIn(l, x) = CountIn(k, x)

\* C35: the queue a chat session starts with is a permutation of its list
\* of valid personas, and every later step of the session leaves the queue
\* a permutation of what it was: same length, nothing lost or duplicated.
C35_QueuePermutation ==
    [][\A s \in Sessions :
          /\ (chat[s].pc = "announce" /\ chat'[s].pc # "announce")
                => IsPermutationOf(chat'[s].speaker_queue, chat[s].valid_entitys)
          /\ (chat[s].speaker_queue # <<>> /\ chat'[s].pc # "announce"
                                           /\ chat'[s].exit # "rejected")
                => IsPermutationOf(chat'[s].speaker_queue, chat[s].speaker_queue)]_vars

\* a session of three personas in its second turn, after the first of the
\* queue was moved behind the two others
C35_Witness ==
    \E s \in Sessions :
        /\ chat[s].pc = "activating"
        /\ chat[s].turn = 1
        /\ Len(chat[s].speaker_queue) = 3
        /\ chat[s].selected_index = 0
        /\ chat[s].speaker_queue # chat[s].prev_queue

\* C36: every activation of on_message begins when the channel of the event
\* is not stopped, the later activations of an event of several personas
\* included.
C36_ActivationsBeginUnstopped ==
    [][(ev'.pc = "activating" /\ (ev.pc # "activating" \/ ev'.begun # ev.begun))
          => ~is_stopped(channels'[ev'.channel], now')]_vars

\* C37: a message posted through the proxy identity of a persona (the
\* webhook user name is the persona's name) never activates that persona
\* itself by mention resolution.
C37_NoSelfActivation ==
    (ev.pc = "activating" /\ ev.proxy /\ ~ev.fallback) =>
        \A i \in 1..ev.begun : ev.unique_entitys[i].name # ev.author_name

\* C38: while a chat session runs on a channel on which no stop was ever
\* issued, each of its personas is a participant of the channel, also when
\* another session on the same channel starts or finishes in the meantime.
C38_ParticipantsWhileRunning ==
    \A s \in Sessions :
        (/\ chat[s].pc \in {"activating", "sleeping", "stopsend", "donesend"}
         /\ stop_log[chat[s].channel] = -1)
            => \A i \in 1..Len(chat[s].speaker_queue) :
                  is_in_chat(channels[chat[s].channel],
                             chat[s].speaker_queue[i].handle)

\* the positions of a session that has announced itself and not yet left
ChatRunning == {"announce", "activating", "sleeping", "stopsend", "donesend"}

\* C39: a chat session whose awaits return reaches its exit, it begins at
\* most num_turns activations, and the step that leaves it empties the
\* participant set of its channel; stops do not change this.
C39_ChatTerminates ==
    /\ [](chat[1].activations <= chat[1].num_turns)
    /\ (chat[1].pc \in ChatRunning) ~> (chat[1].pc = "exited")
    /\ [][(chat[1].pc \in ChatRunning /\ chat'[1].pc = "exited")
            => channels'[chat[1].channel].chat_participants = <<>>]_vars

\* a session has left after the last of its turns, and another after a stop
C39_Witness ==
    /\ chat[1].pc = "exited"
    /\ chat[1].exit \in {"completed", "stopped"}
    /\ chat[1].activations = IF chat[1].exit = "completed"
                             THEN chat[1].num_turns ELSE 1
    /\ chat[1].num_turns = MaxTurns

\* C40: a channel never has more than one webhook made by the bot, and a
\* call of get_or_create_webhook that returned a webhook returned the one
\* that is cached for its channel.
C40_OneWebhookPerChannel ==
    /\ \A c \in ChannelIds : hook.existing[c] <= 1
    /\ \A t \in Tasks :
          (hook.calls[t].pc = "returned" /\ hook.calls[t].webhook # 0)
              => hook.calls[t].webhook = channel_webhooks[hook.calls[t].channel]

====